---- MODULE Spec2Model ----
(***************************************************************************)
(* State-machine model of the optimistic-oracle client pollers             *)
(* (pollNewEvents, pollActiveRequest) and of the chain data fetcher        *)
(* (Update) they are built on.                                             *)
(*                                                                         *)
(* An async function is modelled at its await points: one action runs the  *)
(* code from one await to the next.  The result of every external call is  *)
(* drawn when the awaited promise settles.                                 *)
(*                                                                         *)
(* An optional JavaScript value is a sequence: <<>> is undefined, <<v>> is *)
(* the value v.                                                            *)
(***************************************************************************)
EXTENDS Integers, Sequences, FiniteSets, TLC

\* ------------------------------------------------------------------ bounds
\* Block numbers the providers report: 0 .. MaxBlock.
MaxBlock == 2
\* Handler invocations per task instance.
MaxTicks == 3
\* Invocations of the active-request refresher's handler.
MaxActiveTicks == 2
\* Update methods the direct caller invokes.
MaxCalls == 2
\* Addresses of the AncillaryData calls: first bytes 0x00, 0x11, ... up to
\* MaxSeed * 0x11.
MaxSeed == 15
\* Invocations of the datastore API's updateContractState.
MaxApiCalls == 2
\* Invocations per task instance under the executor's clock.
MaxExecTicks == 2
\* Public methods of Update a caller invokes, all() and the rest.
MaxFetcherCalls == 1
\* Event-range writes and request listings a caller invokes.
MaxListingCalls == 3

\* ------------------------------------------------------- program constants
\* pollNewEvents: `pollRateSec = 50`.
DefaultPollRateSec == 50
\* pollActiveRequest: `checkTxIntervalSec = 30`.
DefaultCheckTxIntervalSec == 30
\* sleep takes milliseconds: `pollRateSec * 1000`.
MsPerSec == 1000

\* AncillaryData: an address has 20 bytes, its text 40.
AddressBytes == 20
TextBytes == 40
\* AncillaryData.char: `uint8(b) < 10`, `+ 0x30`, `+ 0x57`.
Ten == 10
Ox30 == 48
Ox57 == 87
\* "," and ":" in utf8.
Comma == 44
Colon == 58

\* ------------------------------------------------------------ JS optionals
Undef == <<>>
Some(v) == <<v>>
IsDef(x) == x # Undef
Val(x) == x[1]
\* JavaScript truthiness of an optional number: undefined and 0 are falsy.
Truthy(x) == IsDef(x) /\ Val(x) # 0
\* JavaScript `a || b`.
JsOr(a, b) == IF Truthy(a) THEN a ELSE b
\* A destructuring or parameter default, `x = d`: applies to undefined only.
Default(x, d) == IF IsDef(x) THEN x ELSE Some(d)

Blocks == 0 .. MaxBlock
OptBlocks == {Undef} \cup {Some(b) : b \in Blocks}

\* ---------------------------------------------------------------- domains
\* New-event poller instances, one per chain.
Pollers == {"A", "B"}
ChainOf(p) == IF p = "A" THEN 1 ELSE 2
Chains == {1, 2}
\* Everything that awaits an Update method: the pollers, the active-request
\* refresher "R" and the direct callers "U" and "V".
Callers == Pollers \cup {"R", "U", "V"}
\* Request keys (requester, identifier, timestamp, ancillaryData), token
\* addresses, accounts, and the values external reads return.
Keys == {"k1", "k2"}
Tokens == {"t1", "t2"}
Accounts == {"u1"}
Spenders == {"oo"}
Vals == {"x", "y"}
\* RequestState.
RequestStates ==
  {"Invalid", "Requested", "Proposed", "Expired", "Disputed", "Resolved", "Settled"}

\* The outcome of an external call: an error or a value.
Fail(call) == [ok |-> FALSE, err |-> call]
Ok(v) == [ok |-> TRUE, v |-> v]
\* Whether the external calls of a chain succeed: "flaky" is either way.
Health == {"up", "down", "flaky"}
Outcomes(h, call, values) ==
  (IF h \in {"down", "flaky"} THEN {Fail(call)} ELSE {})
    \cup (IF h \in {"up", "flaky"} THEN {Ok(v) : v \in values} ELSE {})

VARIABLES
  registry,   \* the poller instances the executor holds
  health,     \* per chain: whether its external calls succeed
  params,     \* per poller: Params {chainId, startBlock?, pollRateSec?}
  memory,     \* per poller: Memory {error?, lastBlock?, iterations}
  hpc,        \* per handler instance: where its invocation stands
  loc,        \* per poller: the running invocation's locals and calls
  frame,      \* per caller: the Update method invocation it awaits
  store,      \* the snapshot store
  ticks,      \* per handler instance: invocations started
  hist,       \* per poller: one record per finished invocation
  rmemory,    \* the refresher's Memory {error?, iterations}
  rtick,      \* the refresher's current (or last) invocation
  snapshot,   \* the store when the direct caller's invocation began
  ncalls,     \* invocations the direct caller has made
  outer,      \* the direct caller's invocation of Update.all
  sorted,     \* the entries of the sorted-requests service
  onchain,    \* the moment of its history the on-chain request is at
  clock,      \* per task instance: time passed since an invocation returned
  anc,        \* the AncillaryData call under evaluation
  api,        \* the datastore API's updateContractState and lastBlockUpdate
  fetched     \* per caller: the request record its Update.request fetched

pollVars == <<registry, params, memory, loc, hist>>
taskVars == <<hpc, ticks>>
activeVars == <<rmemory, rtick>>
callerVars == <<snapshot, ncalls>>
worldVars == <<onchain, clock, anc, api, fetched>>
extVars == <<outer, sorted, worldVars>>
vars == <<health, pollVars, taskVars, activeVars, callerVars, extVars, frame, store>>

\* ------------------------------------------------------------------ store
\* The events of a chain's oracle contract: one per block, named by it.
QueryFilter(from, to) == {b \in Blocks : from <= b /\ b <= to}
\* What the event of block b carries: the key of the request it is about and
\* the state that request moves to.  Every chain has the same log, so the
\* request keys of different chains collide.
EventKey(b) == IF b % 4 = 2 THEN "k2" ELSE "k1"
EventState(b) ==
  CASE b % 4 = 0 -> "Requested"
    [] b % 4 = 1 -> "Proposed"
    [] b % 4 = 2 -> "Requested"
    [] OTHER -> "Disputed"

\* The store before anything is fetched, with the selection `inputs`
\* (request: the selected request {chainId, key}; user: the account) and
\* per chain the config's checkTxIntervalSec.
EmptyStore(inputs, config) ==
  [inputs |-> inputs,
   config |-> config,
   events |-> [c \in Chains |-> {}],
   requests |-> [c \in Chains |-> [k \in Keys |-> Undef]],
   descendingRequests |-> <<>>,
   erc20s |-> {},
   defaultLiveness |-> [c \in Chains |-> Undef],
   currentTime |-> [c \in Chains |-> Undef],
   props |-> [c \in Chains |-> [t \in Tokens |-> Undef]],
   balances |-> [c \in Chains |-> [t \in Tokens |-> [a \in Accounts |-> Undef]]],
   allowances |-> [c \in Chains |-> [t \in Tokens |-> [a \in Accounts |->
                     [s \in Spenders |-> Undef]]]]]

\* read().inputRequest(): the selected request, or NotFound.
InputRequest(st) == st.inputs.request
\* read().requestChainId().
RequestChainId(st) ==
  IF IsDef(InputRequest(st)) THEN Some(Val(InputRequest(st)).chainId) ELSE Undef
\* read().request(): the cached record of the selected request, or NotFound.
ReadRequest(st) ==
  IF IsDef(InputRequest(st))
  THEN st.requests[Val(InputRequest(st)).chainId][Val(InputRequest(st)).key]
  ELSE Undef
\* read().userAddress().
UserAddress(st) == st.inputs.user
\* read().collateralService(): the erc20 service of the selected request's
\* currency, known once the request is fetched.
CollateralService(st) ==
  IF IsDef(ReadRequest(st)) THEN Some(Val(ReadRequest(st)).currency) ELSE Undef
\* read().tokenService(chainId, token): a registered erc20 service.
TokenService(st, chainId, token) ==
  IF <<chainId, token>> \in st.erc20s THEN Some(token) ELSE Undef
\* read().chainConfig(): the config of the selected request's chain.
ChainConfig(st) ==
  IF IsDef(RequestChainId(st)) THEN Ok(st.config[Val(RequestChainId(st))])
  ELSE Fail("NotFound")
\* read().oracleEvents(chainId): the events written for the chain.
ReadOracleEvents(st, chainId) == st.events[chainId]
\* ignoreError(fn): what fn() returns, or undefined when it throws.
IgnoreError(r) == IF r.ok THEN Some(r.v) ELSE Undef

\* The mutation view of a write transaction.
\* Faulty variant: the event replaces the events the chain had.
StoreEvent_Overwrite(st, chainId, event) == [st EXCEPT !.events[chainId] = {event}]

\* write.chains(chainId).optimisticOracle().event(event): the event joins
\* the chain's events, which hold each event once.
StoreEvent(st, chainId, event) == [st EXCEPT !.events[chainId] = @ \cup {event}]
\* write.services(chainId).erc20s(token): the token's service is registered.
StoreErc20(st, chainId, token) == [st EXCEPT !.erc20s = @ \cup {<<chainId, token>>}]
\* Faulty variant: the record replaces the request records of the chain.
StoreRequest_Clobber(st, chainId, key, data) ==
  [st EXCEPT !.requests[chainId] = [k \in Keys |-> IF k = key THEN Some(data) ELSE Undef]]

\* write.chains(chainId).optimisticOracle().request(request, data): the
\* record of that request is set.
StoreRequest(st, chainId, key, data) == [st EXCEPT !.requests[chainId][key] = Some(data)]

\* `events.forEach((event) => w.chains(chainId).optimisticOracle().event(event))`.
RECURSIVE WriteEvents(_, _, _)
WriteEvents(st, chainId, events) ==
  IF events = {} THEN st
  ELSE LET event == CHOOSE e \in events : TRUE IN
       WriteEvents(StoreEvent(st, chainId, event), chainId, events \ {event})

\* Faulty variant: the record is written, the currency's service is not registered.
WriteRequest_RecordOnly(st, chainId, key, fullRequest, state) ==
  StoreRequest(st, chainId, key,
               [currency |-> fullRequest.currency, data |-> fullRequest.data,
                state |-> state])

\* write.services(chainId).erc20s(fullRequest.currency), then
\* write.chains(chainId).optimisticOracle().request(request, {...fullRequest, state}).
WriteRequest(st, chainId, key, fullRequest, state) ==
  StoreRequest(StoreErc20(st, chainId, fullRequest.currency), chainId, key,
               [currency |-> fullRequest.currency, data |-> fullRequest.data,
                state |-> state])
WriteDefaultLiveness(st, chainId, v) == [st EXCEPT !.defaultLiveness[chainId] = Some(v)]
WriteBalance(st, chainId, token, account, v) ==
  [st EXCEPT !.balances[chainId][token][account] = Some(v)]
WriteProps(st, chainId, token, v) == [st EXCEPT !.props[chainId][token] = Some(v)]
WriteAllowance(st, chainId, token, account, spender, v) ==
  [st EXCEPT !.allowances[chainId][token][account][spender] = Some(v)]
WriteCurrentTime(st, chainId, v) == [st EXCEPT !.currentTime[chainId] = Some(v)]
\* w.descendingRequests(descendingRequests).
WriteDescendingRequests(st, v) == [st EXCEPT !.descendingRequests = v]

\* ----------------------------------------------------------------- Update
\* An invocation of an Update method: pc is the external read it awaits, or
\* "returned" / "thrown"; reads are the external reads it has issued, writes
\* its store write transactions, rejected the error an external read
\* rejected with, err the error the invocation itself rejected with.
NoFrame ==
  [m |-> "none", pc |-> "none", reads |-> <<>>, writes |-> 0,
   rejected |-> Undef, err |-> Undef]
Frame(m, pc, read, args) ==
  [m |-> m, pc |-> pc, reads |-> <<read>>, writes |-> 0,
   rejected |-> Undef, err |-> Undef, args |-> args]
\* A store read threw before any external read was issued.
NotFound(m) ==
  [m |-> m, pc |-> "thrown", reads |-> <<>>, writes |-> 0,
   rejected |-> Undef, err |-> Some("NotFound")]
Returned(f) == f.pc = "returned"
Thrown(f) == f.pc = "thrown"
Settled(f) == Returned(f) \/ Thrown(f)
Awaits(c, m, pc) == frame[c].m = m /\ frame[c].pc = pc

\* Faulty variant: the rejection is caught and another error is thrown.
Reject_Wrapped(f, e) ==
  [f EXCEPT !.pc = "thrown", !.rejected = Some(e), !.err = Some("UpdateError")]

\* An awaited external read rejected with `e`: nothing catches it, the
\* invocation rejects with the same error.
Reject(f, e) == [f EXCEPT !.pc = "thrown", !.rejected = Some(e), !.err = Some(e)]
\* The next external read is issued.
Issue(f, pc, read) == [f EXCEPT !.pc = pc, !.reads = Append(@, read)]
\* Faulty variant: a second write transaction before the method returns.
Return_TwoWrites(f) == [f EXCEPT !.pc = "returned", !.writes = @ + 2]

\* The write transaction is done and the method returns.
Return(f) == [f EXCEPT !.pc = "returned", !.writes = @ + 1]

\* Update.request(params?) up to `await oo.getRequest(...)`.
RequestCall(st, reqParams) ==
  LET request == IF IsDef(reqParams) THEN reqParams ELSE InputRequest(st) IN
  IF ~IsDef(request) THEN NotFound("request")
  ELSE Frame("request", "getRequest",
             [call |-> "getRequest", chainId |-> Val(request).chainId, key |-> Val(request).key],
             [chainId |-> Val(request).chainId, key |-> Val(request).key])

\* Update.oracle() up to `await oo.getProps()`.
OracleCall(st) ==
  IF ~IsDef(RequestChainId(st)) THEN NotFound("oracle")
  ELSE Frame("oracle", "getProps",
             [call |-> "getProps", chainId |-> Val(RequestChainId(st))],
             [chainId |-> Val(RequestChainId(st))])

\* Update.userCollateralBalance() up to `await token.contract.balanceOf(account)`.
UserCollateralBalanceCall(st) ==
  IF ~IsDef(RequestChainId(st)) \/ ~IsDef(UserAddress(st)) \/ ~IsDef(CollateralService(st))
  THEN NotFound("userCollateralBalance")
  ELSE LET a == [chainId |-> Val(RequestChainId(st)), token |-> Val(CollateralService(st)),
                 account |-> Val(UserAddress(st))]
       IN Frame("userCollateralBalance", "balanceOf", [call |-> "balanceOf"] @@ a, a)

\* Update.collateralProps() up to `await token.getProps()`.
CollateralPropsCall(st) ==
  IF ~IsDef(RequestChainId(st)) \/ ~IsDef(CollateralService(st))
  THEN NotFound("collateralProps")
  ELSE LET a == [chainId |-> Val(RequestChainId(st)), token |-> Val(CollateralService(st))]
       IN Frame("collateralProps", "getProps", [call |-> "getProps"] @@ a, a)

\* The oracle address of a chain: read().oracleAddress().
OracleAddress(st) == "oo"

\* Update.oracleAllowance() up to `await token.contract.allowance(account, oracleAddress)`.
OracleAllowanceCall(st) ==
  IF ~IsDef(RequestChainId(st)) \/ ~IsDef(UserAddress(st)) \/ ~IsDef(CollateralService(st))
  THEN NotFound("oracleAllowance")
  ELSE LET a == [chainId |-> Val(RequestChainId(st)), token |-> Val(CollateralService(st)),
                 account |-> Val(UserAddress(st)), spender |-> OracleAddress(st)]
       IN Frame("oracleAllowance", "allowance", [call |-> "allowance"] @@ a, a)

\* Update.balance(chainId, token, account) up to `await ...balanceOf(account)`.
BalanceCall(st, chainId, token, account) ==
  IF ~IsDef(TokenService(st, chainId, token)) THEN NotFound("balance")
  ELSE LET a == [chainId |-> chainId, token |-> token, account |-> account]
       IN Frame("balance", "balanceOf", [call |-> "balanceOf"] @@ a, a)

\* Update.allowance(chainId, token, account, spender) up to `await ...allowance(...)`.
AllowanceCall(st, chainId, token, account, spender) ==
  IF ~IsDef(TokenService(st, chainId, token)) THEN NotFound("allowance")
  ELSE LET a == [chainId |-> chainId, token |-> token, account |-> account,
                 spender |-> spender]
       IN Frame("allowance", "allowance", [call |-> "allowance"] @@ a, a)

\* Update.currentTime(optionalChainId?) up to `await oo.getCurrentTime()`:
\* `optionalChainId || this.read().requestChainId()`.
CurrentTimeCall(st, optionalChainId) ==
  LET chainId == IF Truthy(optionalChainId) THEN optionalChainId ELSE RequestChainId(st) IN
  IF ~IsDef(chainId) THEN NotFound("currentTime")
  ELSE Frame("currentTime", "getCurrentTime",
             [call |-> "getCurrentTime", chainId |-> Val(chainId)],
             [chainId |-> Val(chainId)])

\* Update.oracleEvents(chainId, startBlock = 0, endBlock?) up to its first
\* await: `endBlock || (await provider.getBlockNumber())` awaits only when
\* endBlock is falsy; otherwise queryFilter is issued at once.
OracleEventsCall(chainId, startBlock, endBlock) ==
  LET from == Val(Default(startBlock, 0)) IN
  IF Truthy(endBlock)
  THEN Frame("oracleEvents", "queryFilter",
             [call |-> "queryFilter", chainId |-> chainId, from |-> from, to |-> Val(endBlock)],
             [chainId |-> chainId, startBlock |-> from, endBlock |-> endBlock])
  ELSE Frame("oracleEvents", "getBlockNumber",
             [call |-> "getBlockNumber", chainId |-> chainId],
             [chainId |-> chainId, startBlock |-> from, endBlock |-> endBlock])

\* What the chain can answer to oo.getRequest: the request's currency and
\* the rest of its fields.
FullRequests == {[currency |-> "t1", data |-> "x"], [currency |-> "t2", data |-> "y"]}

\* The external read of an invocation settles with outcome r.  One
\* definition per await point: the invocation after it, and the store.
RequestGotRequest(f, r) ==
  IF r.ok THEN Issue([f EXCEPT !.args = @ @@ [fullRequest |-> r.v]], "getState",
                     [call |-> "getState", chainId |-> f.args.chainId, key |-> f.args.key])
  ELSE Reject(f, r.err)

AfterRead(f, r) == IF r.ok THEN Return(f) ELSE Reject(f, r.err)

\* The write transaction each method ends with.
Commit(st, f, v) ==
  LET a == f.args IN
  CASE f.m = "request" -> WriteRequest(st, a.chainId, a.key, a.fullRequest, v)
    [] f.m = "oracle" -> WriteDefaultLiveness(st, a.chainId, v)
    [] f.m = "userCollateralBalance" -> WriteBalance(st, a.chainId, a.token, a.account, v)
    [] f.m = "collateralProps" -> WriteProps(st, a.chainId, a.token, v)
    [] f.m = "oracleAllowance" -> WriteAllowance(st, a.chainId, a.token, a.account, a.spender, v)
    [] f.m = "balance" -> WriteBalance(st, a.chainId, a.token, a.account, v)
    [] f.m = "allowance" -> WriteAllowance(st, a.chainId, a.token, a.account, a.spender, v)
    [] f.m = "currentTime" -> WriteCurrentTime(st, a.chainId, v)
    [] f.m = "oracleEvents" -> WriteEvents(st, a.chainId, v)

\* Faulty variant: the write is keyed by the chain selected when it is made.
AfterWrite_Reselect(st, f, r) ==
  IF r.ok
  THEN Commit(st, [f EXCEPT !.args.chainId =
                     IF IsDef(RequestChainId(st)) THEN Val(RequestChainId(st)) ELSE @], r.v)
  ELSE st

AfterWrite(st, f, r) == IF r.ok THEN Commit(st, f, r.v) ELSE st

Others == <<health, pollVars, taskVars, activeVars, callerVars, extVars>>

\* Update.request: `await oo.getRequest(...)` settles; oo.getState is issued.
UpdateRequestGotRequest(c) ==
  /\ Awaits(c, "request", "getRequest")
  /\ \E r \in Outcomes(health[frame[c].args.chainId], "getRequest", FullRequests) :
       frame' = [frame EXCEPT ![c] = RequestGotRequest(@, r)]
  /\ UNCHANGED <<Others, store>>

\* Update.request: `await oo.getState(...)` settles; the record is written.
UpdateRequestGotState(c) ==
  /\ Awaits(c, "request", "getState")
  /\ \E r \in Outcomes(health[frame[c].args.chainId], "getState", RequestStates) :
       /\ frame' = [frame EXCEPT ![c] = AfterRead(@, r)]
       /\ store' = AfterWrite(store, frame[c], r)
  /\ UNCHANGED Others

\* The methods with one external read (oracle, userCollateralBalance,
\* collateralProps, oracleAllowance, balance, allowance, currentTime): the
\* read settles and its value is written.
SingleReadMethods ==
  {"oracle", "userCollateralBalance", "collateralProps", "oracleAllowance",
   "balance", "allowance", "currentTime"}

UpdateGotValue(c) ==
  /\ frame[c].m \in SingleReadMethods
  /\ ~Settled(frame[c])
  /\ \E r \in Outcomes(health[frame[c].args.chainId], frame[c].pc, Vals) :
       /\ frame' = [frame EXCEPT ![c] = AfterRead(@, r)]
       /\ store' = AfterWrite(store, frame[c], r)
  /\ UNCHANGED Others

\* Update.oracleEvents: `await provider.getBlockNumber()` settles;
\* queryFilter is issued for startBlock .. endBlock.
OracleEventsGotBlock(f, r) ==
  IF r.ok
  THEN Issue([f EXCEPT !.args.endBlock = JsOr(@, Some(r.v))], "queryFilter",
             [call |-> "queryFilter", chainId |-> f.args.chainId,
              from |-> f.args.startBlock, to |-> Val(JsOr(f.args.endBlock, Some(r.v)))])
  ELSE Reject(f, r.err)

UpdateOracleEventsGotBlock(c) ==
  /\ Awaits(c, "oracleEvents", "getBlockNumber")
  /\ \E r \in Outcomes(health[frame[c].args.chainId], "getBlockNumber", Blocks) :
       frame' = [frame EXCEPT ![c] = OracleEventsGotBlock(@, r)]
  /\ UNCHANGED <<Others, store>>

\* Update.oracleEvents: `await oracle.contract.queryFilter(...)` settles;
\* every event is written in one write transaction.
UpdateOracleEventsGotEvents(c) ==
  /\ Awaits(c, "oracleEvents", "queryFilter")
  /\ \E r \in Outcomes(health[frame[c].args.chainId], "queryFilter",
                       {QueryFilter(frame[c].args.startBlock, Val(frame[c].args.endBlock))}) :
       /\ frame' = [frame EXCEPT ![c] = AfterRead(@, r)]
       /\ store' = AfterWrite(store, frame[c], r)
  /\ UNCHANGED Others

\* Update.isConfirmed(chainId, hash, confirmations) up to the promise of
\* txService.isConfirmed(hash, confirmations) it returns.
IsConfirmedCall(chainId) ==
  Frame("isConfirmed", "isConfirmed", [call |-> "isConfirmed", chainId |-> chainId],
        [chainId |-> chainId])

\* What txService.isConfirmed resolves to: false or the receipt.
Confirmations == {"false", "receipt"}

\* The method returns a value and writes nothing.
ReturnValue(f, v) == [f EXCEPT !.pc = "returned", !.args = @ @@ [result |-> v]]

\* Update.isConfirmed: the promise settles; nothing is written.
UpdateIsConfirmedDone(c) ==
  /\ Awaits(c, "isConfirmed", "isConfirmed")
  /\ \E r \in Outcomes(health[frame[c].args.chainId], "isConfirmed", Confirmations) :
       frame' = [frame EXCEPT ![c] = IF r.ok THEN ReturnValue(@, r.v) ELSE Reject(@, r.err)]
  /\ UNCHANGED <<Others, store>>

\* optimisticOracle.getEventState(events).requests: a fold over the events
\* in block order; per request key the state its last event moved it to.
GetEventState(events) ==
  [k \in {EventKey(b) : b \in events} |->
     LET last == CHOOSE b \in events :
                   EventKey(b) = k /\ \A o \in events : EventKey(o) = k => o <= b
     IN [key |-> k, state |-> EventState(last), block |-> last]]

\* Faulty variant: the request key alone.
SortedKey_Unqualified(key, chainId) == <<key>>

\* The key of an entry of the sorted-requests service: `key + "!" + chainId`.
SortedKey(key, chainId) == <<key, chainId>>

\* sortedRequestsService.set(id, value): the entry of that id is replaced.
SortedSet(entries, id, value) ==
  {e \in entries : e.id # id} \cup {[id |-> id, value |-> value]}

\* `Object.entries(requests).forEach(([key, value]) =>
\*    sortedRequestsService.set(key + "!" + chainId, { ...value, chainId }))`.
RECURSIVE SetRequests(_, _, _, _)
SetRequests(entries, requests, keys, chainId) ==
  IF keys = {} THEN entries
  ELSE LET key == CHOOSE k \in keys : TRUE IN
       SetRequests(SortedSet(entries, SortedKey(key, chainId),
                             requests[key] @@ [chainId |-> chainId]),
                   requests, keys \ {key}, chainId)

\* The order of the sorted-requests service: by request key, then by chain.
KeyRank(k) == IF k = "k1" THEN 1 ELSE 2
Before(a, b) ==
  \/ KeyRank(a.value.key) < KeyRank(b.value.key)
  \/ a.value.key = b.value.key /\ a.value.chainId < b.value.chainId

\* sortedRequestsService.descending(): the values, last in order first.
RECURSIVE Descending(_)
Descending(entries) ==
  IF entries = {} THEN <<>>
  ELSE LET top == CHOOSE e \in entries : \A o \in entries : ~Before(e, o)
       IN <<top.value>> \o Descending(entries \ {top})

\* Update.sortedRequests(chainId) up to `await sortedRequestsService.descending()`:
\* the invocation, and the entries of the service after the forEach.
SortedRequestsCall(chainId) ==
  Frame("sortedRequests", "descending", [call |-> "descending", chainId |-> chainId],
        [chainId |-> chainId])
SortedRequestsSet(st, entries, chainId) ==
  LET requests == GetEventState(ReadOracleEvents(st, chainId)) IN
  SetRequests(entries, requests, DOMAIN requests, chainId)

\* Update.sortedRequests: `await sortedRequestsService.descending()` settles
\* and the list is written.
UpdateSortedRequestsDone(c) ==
  /\ Awaits(c, "sortedRequests", "descending")
  /\ frame' = [frame EXCEPT ![c] = Return(@)]
  /\ store' = WriteDescendingRequests(store, Descending(sorted))
  /\ UNCHANGED Others

\* Update.all(): oracle, request, collateralProps, userCollateralBalance and
\* oracleAllowance, each awaited before the next is called.
AllSteps ==
  <<"oracle", "request", "collateralProps", "userCollateralBalance", "oracleAllowance">>
StepCall(st, m) ==
  CASE m = "oracle" -> OracleCall(st)
    [] m = "request" -> RequestCall(st, Undef)
    [] m = "collateralProps" -> CollateralPropsCall(st)
    [] m = "userCollateralBalance" -> UserCollateralBalanceCall(st)
    [] m = "oracleAllowance" -> OracleAllowanceCall(st)

\* No invocation of all(); an invocation at its first step.  Of an
\* invocation: the step it awaits, the write transactions of the steps that
\* returned, and the error it rejected with.
NoOuter == [m |-> "none", pc |-> "none", step |-> 0, writes |-> 0, err |-> Undef]
AllCall == [m |-> "all", pc |-> "running", step |-> 1, writes |-> 0, err |-> Undef]

\* Faulty variant: a step that rejected is skipped.
AllAfterStep_SkipFailed(o, f) ==
  IF o.step = Len(AllSteps)
  THEN [o EXCEPT !.pc = "returned", !.writes = @ + f.writes]
  ELSE [o EXCEPT !.step = @ + 1, !.writes = @ + f.writes]

\* all() after the step it awaited settled: a rejection rejects all(), the
\* last step's return returns it, any other return calls the next step.
AllAfterStep(o, f) ==
  IF Thrown(f) THEN [o EXCEPT !.pc = "thrown", !.err = f.err]
  ELSE IF o.step = Len(AllSteps)
       THEN [o EXCEPT !.pc = "returned", !.writes = @ + f.writes]
       ELSE [o EXCEPT !.step = @ + 1, !.writes = @ + f.writes]

\* Update.all: the awaited step has settled.
UpdateAllStepDone(c) ==
  /\ outer.pc = "running"
  /\ Settled(frame[c])
  /\ outer' = AllAfterStep(outer, frame[c])
  /\ IF outer'.pc = "running"
     THEN /\ frame' = [frame EXCEPT ![c] = StepCall(store, AllSteps[outer'.step])]
          /\ snapshot' = store
     ELSE UNCHANGED <<frame, snapshot>>
  /\ UNCHANGED <<health, pollVars, taskVars, activeVars, ncalls, sorted, worldVars, store>>

\* ------------------------------------------------- pollNewEvents handlers
\* initMemory(): { iterations: 0 }.
initMemory == [error |-> Undef, lastBlock |-> Undef, iterations |-> 0]

\* The locals of an invocation that has not read the latest block yet, and
\* the Update calls it has issued.
NoLocals == [latestBlock |-> Undef, currentBlock |-> Undef, calls |-> <<>>]

\* `memory.lastBlock || startBlock || latestBlock`.
CurrentBlock(mem, startBlock, latestBlock) ==
  JsOr(JsOr(mem.lastBlock, startBlock), latestBlock)

\* Faulty variant: the query is issued whether or not the blocks differ.
ShouldQuery_Always(latestBlock, currentBlock) == TRUE

\* `if (latestBlock !== currentBlock)`.
ShouldQuery(latestBlock, currentBlock) == latestBlock # currentBlock

\* Faulty variant: the delay is passed in seconds.
PollSleep_Seconds(ps) ==
  [kind |-> "sleep", ms |-> Val(Default(ps.pollRateSec, DefaultPollRateSec))]

\* `ctx.sleep(pollRateSec * 1000)`, with `pollRateSec = 50` when not given.
PollSleep(ps) ==
  [kind |-> "sleep", ms |-> Val(Default(ps.pollRateSec, DefaultPollRateSec)) * MsPerSec]

\* A rejection nothing in the handler catches.
Threw(err) == [kind |-> "threw", err |-> err]

\* `memory.error = undefined`.
ClearError(mem) == [mem EXCEPT !.error = Undef]

\* `memory.iterations++`.
CountIteration(mem) == [mem EXCEPT !.iterations = @ + 1]

\* Faulty variant: lastBlock moves whether or not the fetch returned.
AfterEvents_AdvanceOnFailure(mem, f, latestBlock) ==
  [mem EXCEPT !.lastBlock = latestBlock,
              !.error = IF Thrown(f) THEN f.err ELSE @]

\* The try block after `await update.oracleEvents(...)` settled: lastBlock
\* moves to latestBlock when the fetch returned, the error is stored when it
\* threw.
AfterEvents(mem, f, latestBlock) ==
  [mem EXCEPT !.lastBlock = IF Returned(f) THEN latestBlock ELSE @,
              !.error = IF Thrown(f) THEN f.err ELSE @]

\* What a finished invocation leaves in the history: memory.lastBlock
\* before it, its locals and calls, how its fetch ended ("none" when it
\* issued none), the external reads of it that rejected, memory after it
\* and what it returned.
Finished(p, l, fetch, failed, mem, res) ==
  Append(hist[p],
         [before |-> memory[p].lastBlock, latest |-> l.latestBlock,
          current |-> l.currentBlock, calls |-> l.calls, fetch |-> fetch,
          failed |-> failed, after |-> mem, result |-> res])

\* The executor invokes start(params, memory, ctx): the handler runs up to
\* `await provider.getBlockNumber()`.
PollStart(p) ==
  /\ p \in registry
  /\ hpc[p] = "idle"
  /\ ticks[p] < MaxTicks
  /\ hpc' = [hpc EXCEPT ![p] = "getBlockNumber"]
  /\ ticks' = [ticks EXCEPT ![p] = @ + 1]
  /\ UNCHANGED <<registry, health, params, memory, loc, hist, frame, store,
                 activeVars, callerVars, extVars>>

\* provider.getBlockNumber() has settled.  A rejection is outside the try
\* block and rejects the handler's own promise.  Otherwise the handler runs
\* to `await update.oracleEvents(...)`, or to its return when the latest
\* block is the current block.
PollGotBlock(p) ==
  /\ hpc[p] = "getBlockNumber"
  /\ \E r \in Outcomes(health[params[p].chainId], "getBlockNumber", Blocks) :
       IF ~r.ok
       THEN /\ hpc' = [hpc EXCEPT ![p] = "idle"]
            /\ hist' = [hist EXCEPT ![p] =
                 Finished(p, NoLocals, "none", {r.err}, memory[p], Threw(r.err))]
            /\ UNCHANGED <<memory, loc, frame>>
       ELSE LET latestBlock == Some(r.v)
                currentBlock == CurrentBlock(memory[p], params[p].startBlock, latestBlock)
                call == [m |-> "oracleEvents", chainId |-> params[p].chainId,
                         startBlock |-> currentBlock, endBlock |-> latestBlock]
                skipped == CountIteration(ClearError(memory[p]))
            IN
            IF ShouldQuery(latestBlock, currentBlock)
            THEN /\ memory' = [memory EXCEPT ![p] = ClearError(@)]
                 /\ frame' = [frame EXCEPT ![p] =
                      OracleEventsCall(params[p].chainId, currentBlock, latestBlock)]
                 /\ loc' = [loc EXCEPT ![p] = [latestBlock |-> latestBlock,
                                               currentBlock |-> currentBlock,
                                               calls |-> <<call>>]]
                 /\ hpc' = [hpc EXCEPT ![p] = "oracleEvents"]
                 /\ UNCHANGED hist
            ELSE /\ memory' = [memory EXCEPT ![p] = skipped]
                 /\ hpc' = [hpc EXCEPT ![p] = "idle"]
                 /\ hist' = [hist EXCEPT ![p] =
                      Finished(p, [latestBlock |-> latestBlock,
                                   currentBlock |-> currentBlock, calls |-> <<>>],
                               "none", {}, skipped, PollSleep(params[p]))]
                 /\ UNCHANGED <<frame, loc>>
  /\ UNCHANGED <<registry, health, params, store, ticks, activeVars, callerVars, extVars>>

\* update.oracleEvents() has settled: the handler runs to its return.
PollEventsDone(p) ==
  /\ hpc[p] = "oracleEvents"
  /\ Settled(frame[p])
  /\ LET mem == CountIteration(AfterEvents(memory[p], frame[p], loc[p].latestBlock)) IN
     /\ memory' = [memory EXCEPT ![p] = mem]
     /\ hist' = [hist EXCEPT ![p] =
          Finished(p, loc[p], IF Returned(frame[p]) THEN "ok" ELSE "failed",
                   IF Thrown(frame[p]) THEN {Val(frame[p].err)} ELSE {},
                   mem, PollSleep(params[p]))]
  /\ hpc' = [hpc EXCEPT ![p] = "idle"]
  /\ loc' = [loc EXCEPT ![p] = NoLocals]
  /\ frame' = [frame EXCEPT ![p] = NoFrame]
  /\ UNCHANGED <<registry, health, params, store, ticks, activeVars, callerVars, extVars>>

\* --------------------------------------------- pollActiveRequest handlers
\* initMemory(): { iterations: 0 }.
initActiveMemory == [error |-> Undef, iterations |-> 0]

\* Nothing invoked yet.  Of an invocation: the local `request`, the Update
\* methods called and how each one settled, the errors its awaits and store
\* reads threw, what store.read().chainConfig gave when it returned, and
\* what it returned.
NoTick ==
  [request |-> Undef, calls |-> <<>>, outcomes |-> <<>>, failed |-> {},
   config |-> Undef, result |-> [kind |-> "none"]]

\* Faulty variant: only Settled stops the refresh.
ShouldUpdate_OnlySettled(request) == request.state # "Settled"

\* `request.state !== RequestState.Invalid && request.state !== RequestState.Settled`.
ShouldUpdate(request) == request.state # "Invalid" /\ request.state # "Settled"

\* Faulty variant: store.read().chainConfig() is called unguarded and its NotFound
\* leaves the handler.
ActiveSleep_Unguarded(st) ==
  IF ChainConfig(st).ok
  THEN [kind |-> "sleep",
        ms |-> Val(Default(ChainConfig(st).v.checkTxIntervalSec,
                           DefaultCheckTxIntervalSec)) * MsPerSec]
  ELSE [kind |-> "threw", err |-> "NotFound"]

\* `const { checkTxIntervalSec = 30 } = ignoreError(store.read().chainConfig) || {}`
\* and `return ctx.sleep(checkTxIntervalSec * 1000)`.
ActiveSleep(st) ==
  LET config == IgnoreError(ChainConfig(st))
      checkTxIntervalSec == IF IsDef(config) THEN Val(config).checkTxIntervalSec ELSE Undef
  IN [kind |-> "sleep",
      ms |-> Val(Default(checkTxIntervalSec, DefaultCheckTxIntervalSec)) * MsPerSec]

\* The catch block: `memory.error = err`.
Caught(mem, err) == [mem EXCEPT !.error = err]

\* The first Update method of a tick: `shouldUpdate && (await update.request())`,
\* then `await update.currentTime()`.
FirstCall(request) == IF ShouldUpdate(request) THEN "request" ELSE "currentTime"

\* Faulty variant: update.request() has a try block of its own.
AfterRequest_Continue(f) == "currentTime"

\* After `await update.request()` settled: a rejection leaves the try block,
\* otherwise update.currentTime() is called.
AfterRequest(f) == IF Thrown(f) THEN "catch" ELSE "currentTime"

\* How an awaited invocation settled, and the error it threw.
Outcome(f) == IF Thrown(f) THEN "failed" ELSE "ok"
Errors(f) == IF Thrown(f) THEN {Val(f.err)} ELSE {}

\* The handler returns.
Returning(t, st) == [t EXCEPT !.config = Some(ChainConfig(st)), !.result = ActiveSleep(st)]

\* The executor invokes start(params, memory, ctx): memory.error is cleared
\* and the selected request is read; the handler runs to its first await,
\* or to its return when the read throws.
ActiveStart ==
  /\ hpc["R"] = "idle"
  /\ ticks["R"] < MaxActiveTicks
  /\ ticks' = [ticks EXCEPT !["R"] = @ + 1]
  /\ LET mem == ClearError(rmemory)
         request == ReadRequest(store)
     IN
     IF ~IsDef(request)
     THEN /\ rmemory' = CountIteration(Caught(mem, Some("NotFound")))
          /\ rtick' = Returning([NoTick EXCEPT !.failed = {"NotFound"}], store)
          /\ UNCHANGED <<hpc, frame>>
     ELSE LET m == FirstCall(Val(request)) IN
          /\ rmemory' = mem
          /\ frame' = [frame EXCEPT !["R"] =
               IF m = "request" THEN RequestCall(store, Undef)
               ELSE CurrentTimeCall(store, Undef)]
          /\ hpc' = [hpc EXCEPT !["R"] = m]
          /\ rtick' = [NoTick EXCEPT !.request = request, !.calls = <<m>>,
                                     !.result = [kind |-> "running"]]
  /\ UNCHANGED <<health, pollVars, callerVars, extVars, store>>

\* `await update.request()` has settled.
ActiveRequestDone ==
  /\ hpc["R"] = "request"
  /\ Settled(frame["R"])
  /\ LET t == [rtick EXCEPT !.outcomes = Append(@, Outcome(frame["R"])),
                            !.failed = @ \cup Errors(frame["R"])]
     IN
     IF AfterRequest(frame["R"]) = "catch"
     THEN /\ rmemory' = CountIteration(Caught(rmemory, frame["R"].err))
          /\ hpc' = [hpc EXCEPT !["R"] = "idle"]
          /\ frame' = [frame EXCEPT !["R"] = NoFrame]
          /\ rtick' = Returning(t, store)
     ELSE /\ frame' = [frame EXCEPT !["R"] = CurrentTimeCall(store, Undef)]
          /\ hpc' = [hpc EXCEPT !["R"] = "currentTime"]
          /\ rtick' = [t EXCEPT !.calls = Append(@, "currentTime")]
          /\ UNCHANGED rmemory
  /\ UNCHANGED <<health, pollVars, callerVars, extVars, store, ticks>>

\* `await update.currentTime()` has settled: the handler runs to its return.
ActiveTimeDone ==
  /\ hpc["R"] = "currentTime"
  /\ Settled(frame["R"])
  /\ rmemory' = CountIteration(IF Thrown(frame["R"]) THEN Caught(rmemory, frame["R"].err)
                               ELSE rmemory)
  /\ hpc' = [hpc EXCEPT !["R"] = "idle"]
  /\ frame' = [frame EXCEPT !["R"] = NoFrame]
  /\ rtick' = Returning([rtick EXCEPT !.outcomes = Append(@, Outcome(frame["R"])),
                                    !.failed = @ \cup Errors(frame["R"])], store)
  /\ UNCHANGED <<health, pollVars, callerVars, extVars, store, ticks>>

\* The selections a caller may pass or find: none, or a request of a chain.
Selections ==
  {Undef} \cup {Some([chainId |-> c, key |-> "k1"]) : c \in Chains}
\* The selections made while the refresher runs.
ActiveSelections == {Undef, Some([chainId |-> 1, key |-> "k1"])}

\* Another task changes the selected request (the setActiveRequest workflow).
SetActiveRequest ==
  /\ \E s \in ActiveSelections : store' = [store EXCEPT !.inputs.request = s]
  /\ store' # store
  /\ UNCHANGED <<health, pollVars, taskVars, activeVars, callerVars, extVars, frame>>

\* ----------------------------------------------------------- direct caller
\* A caller invokes one Update method and awaits it.
Invocations(st) ==
  {RequestCall(st, r) : r \in Selections}
    \cup {OracleCall(st), UserCollateralBalanceCall(st), CollateralPropsCall(st),
          OracleAllowanceCall(st)}
    \cup {BalanceCall(st, c, t, a) : c \in Chains, t \in Tokens, a \in Accounts}
    \cup {AllowanceCall(st, c, t, a, s) : c \in Chains, t \in Tokens, a \in Accounts,
                                           s \in Spenders}
    \cup {CurrentTimeCall(st, c) : c \in {Undef} \cup {Some(x) : x \in Chains}}
    \cup {OracleEventsCall(c, s, e) : c \in Chains, s \in OptBlocks, e \in OptBlocks}

\* The caller awaits nothing.
Idle == (frame["U"].pc = "none" \/ Settled(frame["U"])) /\ outer.pc # "running"

Invoke ==
  /\ Idle
  /\ ncalls < MaxCalls
  /\ \E f \in Invocations(store) : frame' = [frame EXCEPT !["U"] = f]
  /\ snapshot' = store
  /\ ncalls' = ncalls + 1
  /\ outer' = NoOuter
  /\ UNCHANGED <<health, pollVars, taskVars, activeVars, store, sorted, worldVars>>

\* A caller invokes any one public method of Update but all() and
\* sortedRequests().
FetcherInvoke ==
  /\ Idle
  /\ ncalls < MaxFetcherCalls
  /\ \E f \in Invocations(store) \cup {IsConfirmedCall(c) : c \in Chains} :
       frame' = [frame EXCEPT !["U"] = f]
  /\ snapshot' = store
  /\ ncalls' = ncalls + 1
  /\ outer' = NoOuter
  /\ UNCHANGED <<health, pollVars, taskVars, activeVars, store, sorted, worldVars>>

\* The caller invokes Update.sortedRequests(chainId), at most `limit` calls
\* in all.
InvokeSortedRequests(limit) ==
  /\ Idle
  /\ ncalls < limit
  /\ \E c \in Chains :
       /\ frame' = [frame EXCEPT !["U"] = SortedRequestsCall(c)]
       /\ sorted' = SortedRequestsSet(store, sorted, c)
  /\ snapshot' = store
  /\ ncalls' = ncalls + 1
  /\ outer' = NoOuter
  /\ UNCHANGED <<health, pollVars, taskVars, activeVars, store, worldVars>>

\* The caller invokes Update.all().
InvokeAll ==
  /\ Idle
  /\ ncalls < MaxFetcherCalls
  /\ frame' = [frame EXCEPT !["U"] = StepCall(store, AllSteps[1])]
  /\ snapshot' = store
  /\ ncalls' = ncalls + 1
  /\ outer' = AllCall
  /\ UNCHANGED <<health, pollVars, taskVars, activeVars, store, sorted, worldVars>>

\* The caller invokes Update.oracleEvents(chainId, startBlock, endBlock) for
\* a range of blocks.
InvokeOracleEvents ==
  /\ Idle
  /\ ncalls < MaxListingCalls
  /\ \E c \in Chains, s \in Blocks, e \in Blocks :
       /\ s <= e
       /\ frame' = [frame EXCEPT !["U"] = OracleEventsCall(c, Some(s), Some(e))]
  /\ snapshot' = store
  /\ ncalls' = ncalls + 1
  /\ outer' = NoOuter
  /\ UNCHANGED <<health, pollVars, taskVars, activeVars, store, sorted, worldVars>>

\* ----------------------------------------------------------- AncillaryData
\* bytes are sequences of numbers 0 .. 255; an address (uint160) is its 20
\* bytes, most significant first.
\* `uint256(uint160(x)) / (2**(8 * n))`: the number without its n low bytes.
ShiftRight(x, n) == SubSeq(x, 1, Len(x) - n)
\* `uint8(...)`: the low byte of a number.
Uint8(x) == IF x = <<>> THEN 0 ELSE x[Len(x)]

\* Faulty variant: upper-case letters.
Char_Upper(b) == IF b < Ten THEN b + Ox30 ELSE b + 55

\* AncillaryData.char(b).
Char(b) == IF b < Ten THEN b + Ox30 ELSE b + Ox57

\* AncillaryData.toUtf8Bytes(x): the loop from i on, s being the bytes so far.
RECURSIVE ToUtf8Loop(_, _, _)
ToUtf8Loop(x, i, s) ==
  IF i < AddressBytes
  THEN LET b == Uint8(ShiftRight(x, AddressBytes - 1 - i))
           hi == b \div 16
           lo == b - 16 * hi
       IN ToUtf8Loop(x, i + 1, [s EXCEPT ![2 * i + 1] = Char(hi), ![2 * i + 2] = Char(lo)])
  ELSE s

\* AncillaryData.toUtf8Bytes(x): `new bytes(40)`, the loop, `return s`.
ToUtf8Bytes(x) == ToUtf8Loop(x, 0, [j \in 1 .. TextBytes |-> 0])

\* Faulty variant: the comma is put before the key also when there is no data.
AppendAddressKey_AlwaysComma(currentAncillaryData, key, value) ==
  currentAncillaryData \o (<<Comma>> \o key \o <<Colon>>) \o ToUtf8Bytes(value)

\* AncillaryData.appendAddressKey(currentAncillaryData, key, value);
\* abi.encodePacked of bytes is their concatenation.
AppendAddressKey(currentAncillaryData, key, value) ==
  LET prefix == IF Len(currentAncillaryData) > 0
                THEN <<Comma>> \o key \o <<Colon>>
                ELSE key \o <<Colon>>
  IN currentAncillaryData \o prefix \o ToUtf8Bytes(value)

\* The inputs of the calls: addresses whose bytes count up from a first byte
\* by a step; ancillary data that is empty, "key:value", not utf8 (0xab),
\* and "ignore"; the keys "address", empty and not utf8 (0xff).
AddressOf(first, step) == [i \in 1 .. AddressBytes |-> (first + step * (i - 1)) % 256]
Addresses == {AddressOf(17 * k, step) : k \in 0 .. MaxSeed, step \in {0, 1, 16, 255}}
AncillaryDatas ==
  {<<>>, <<107, 101, 121, 58, 118, 97, 108, 117, 101>>, <<171>>,
   <<105, 103, 110, 111, 114, 101>>}
AncillaryKeys == {<<97, 100, 100, 114, 101, 115, 115>>, <<>>, <<255>>}
AncInputs ==
  {[op |-> "input", data |-> d, key |-> k, address |-> a, out |-> <<>>] :
     d \in AncillaryDatas, k \in AncillaryKeys, a \in Addresses}

\* A contract calls toUtf8Bytes(address).
ToUtf8BytesCall ==
  /\ anc.op = "input"
  /\ anc' = [anc EXCEPT !.op = "toUtf8Bytes", !.out = ToUtf8Bytes(anc.address)]
  /\ UNCHANGED <<health, pollVars, taskVars, activeVars, callerVars, outer, sorted,
                 onchain, clock, api, fetched, frame, store>>

\* A contract calls appendAddressKey(currentAncillaryData, key, value).
AppendAddressKeyCall ==
  /\ anc.op = "input"
  /\ anc' = [anc EXCEPT !.op = "appendAddressKey",
                        !.out = AppendAddressKey(anc.data, anc.key, anc.address)]
  /\ UNCHANGED <<health, pollVars, taskVars, activeVars, callerVars, outer, sorted,
                 onchain, clock, api, fetched, frame, store>>

\* ----------------------------------------------------------- datastore API
\* updateContractState(startBlock, endBlock).  Of the API: the persisted
\* lastBlockUpdate; of an invocation: its arguments, lastBlockUpdate when it
\* began, the service calls it made, the call it awaits (0 when none) and
\* how it settled.
NoApi ==
  [lastBlockUpdate |-> 0, n |-> 0, startBlock |-> 0, endBlock |-> 0, before |-> 0,
   calls |-> <<>>, step |-> 0, result |-> "none"]

\* The awaited calls in the order of the code, with their arguments.
ContractStateCalls(startBlock, endBlock) ==
  <<[call |-> "emps.update", args |-> <<startBlock, endBlock>>],
    [call |-> "lsps.update", args |-> <<startBlock, endBlock>>],
    [call |-> "erc20s.update", args |-> <<>>],
    [call |-> "setLastBlockUpdate", args |-> <<endBlock>>]>>

\* The function up to its first await: `if (startBlock === endBlock) return`,
\* `assert(startBlock < endBlock, ...)`, `await services.emps.update(...)`.
ContractStateStart(a, startBlock, endBlock) ==
  LET b == [a EXCEPT !.n = @ + 1, !.startBlock = startBlock, !.endBlock = endBlock,
                     !.before = a.lastBlockUpdate, !.calls = <<>>, !.step = 0]
  IN
  IF startBlock = endBlock THEN [b EXCEPT !.result = "returned"]
  ELSE IF ~(startBlock < endBlock) THEN [b EXCEPT !.result = "AssertionError"]
  ELSE [b EXCEPT !.result = "running", !.step = 1,
                 !.calls = <<ContractStateCalls(startBlock, endBlock)[1]>>]

\* Faulty variant: lastBlockUpdate is set as soon as an update resolved.
ContractStateAfter_EarlyPersist(a, r) ==
  IF ~r.ok THEN [a EXCEPT !.result = r.err, !.step = 0]
  ELSE IF a.step = 4
       THEN [a EXCEPT !.result = "returned", !.step = 0, !.lastBlockUpdate = a.endBlock]
       ELSE [a EXCEPT !.step = @ + 1, !.lastBlockUpdate = a.endBlock,
                      !.calls = Append(@, ContractStateCalls(a.startBlock, a.endBlock)[a.step + 1])]

\* The awaited call settled: a rejection rejects the function; after
\* setLastBlockUpdate resolved, endBlock is persisted and the function
\* returns; otherwise the next call is made.
ContractStateAfter(a, r) ==
  IF ~r.ok THEN [a EXCEPT !.result = r.err, !.step = 0]
  ELSE IF a.step = 4
       THEN [a EXCEPT !.result = "returned", !.step = 0, !.lastBlockUpdate = a.endBlock]
       ELSE [a EXCEPT !.step = @ + 1,
                      !.calls = Append(@, ContractStateCalls(a.startBlock, a.endBlock)[a.step + 1])]

\* The update loop calls updateContractState(startBlock, endBlock).
UpdateContractState ==
  /\ api.step = 0
  /\ api.n < MaxApiCalls
  /\ \E s \in Blocks, e \in Blocks : api' = ContractStateStart(api, s, e)
  /\ UNCHANGED <<health, pollVars, taskVars, activeVars, callerVars, outer, sorted,
                 onchain, clock, anc, fetched, frame, store>>

\* The awaited service call settles.
ContractStateStepDone ==
  /\ api.step > 0
  /\ \E r \in Outcomes("flaky", api.calls[api.step].call, {"done"}) :
       api' = ContractStateAfter(api, r)
  /\ UNCHANGED <<health, pollVars, taskVars, activeVars, callerVars, outer, sorted,
                 onchain, clock, anc, fetched, frame, store>>

\* ---------------------------------------------------------- specification
PollRates == {Undef, Some(7)}

PollParams(p) ==
  {[chainId |-> ChainOf(p), startBlock |-> s, pollRateSec |-> r] :
     s \in OptBlocks, r \in PollRates}

NoParams(p) == [chainId |-> ChainOf(p), startBlock |-> Undef, pollRateSec |-> Undef]

NoInputs == [request |-> Undef, user |-> Undef]
NoConfig == [c \in Chains |-> [checkTxIntervalSec |-> Undef]]

\* No time has passed for any task instance.
NoClock == [p \in Pollers \cup {"R"} |-> [n |-> 0, ms |-> 0]]
\* No AncillaryData call.
NoAnc == [op |-> "none"]

\* Every task instance as constructed, nothing invoked yet.
InitRest ==
  /\ memory = [p \in Pollers |-> initMemory]
  /\ hpc = [p \in Pollers \cup {"R"} |-> "idle"]
  /\ loc = [p \in Pollers |-> NoLocals]
  /\ frame = [c \in Callers |-> NoFrame]
  /\ ticks = [p \in Pollers \cup {"R"} |-> 0]
  /\ hist = [p \in Pollers |-> <<>>]
  /\ rmemory = initActiveMemory
  /\ rtick = NoTick
  /\ ncalls = 0
  /\ outer = NoOuter
  /\ sorted = {}
  /\ onchain = 1
  /\ clock = NoClock
  /\ fetched = [c \in Callers |-> Undef]

InitTasks == InitRest /\ anc = NoAnc /\ api = NoApi

\* One new-event poller, on a chain whose calls may fail at any time.
Init ==
  /\ registry = {"A"}
  /\ health = [c \in Chains |-> "flaky"]
  /\ \E ps \in PollParams("A") : params = [p \in Pollers |-> IF p = "A" THEN ps ELSE NoParams(p)]
  /\ store = EmptyStore(NoInputs, NoConfig)
  /\ snapshot = store
  /\ InitTasks

PollNext ==
  \E p \in Pollers :
    \/ PollStart(p)
    \/ PollGotBlock(p)
    \/ UpdateOracleEventsGotBlock(p)
    \/ UpdateOracleEventsGotEvents(p)
    \/ PollEventsDone(p)

Next == PollNext

Spec == Init /\ [][Next]_vars

\* The executor keeps invoking the handler and every awaited call settles.
SpecLive == Init /\ [][Next]_vars /\ WF_vars(Next)

\* The executor's registry: a task instance is removed at any time, also
\* while an invocation of its handler awaits an external call.  The
\* invocation is not torn down; the instance is not invoked again.
Cancel(p) ==
  /\ p \in registry
  /\ registry' = registry \ {p}
  /\ UNCHANGED <<health, params, memory, loc, hist, taskVars, activeVars, callerVars,
                 extVars, frame, store>>

CancelNext == PollNext \/ \E p \in Pollers : Cancel(p)

\* One new-event poller that may be cancelled.
SpecCancel == Init /\ [][CancelNext]_vars

\* Two new-event pollers run interleaved: every external call of chain A's
\* fails, every call of chain B's succeeds.
InitAB ==
  /\ registry = {"A", "B"}
  /\ health = [c \in Chains |-> IF c = ChainOf("A") THEN "down" ELSE "up"]
  /\ \E pa \in PollParams("A"), pb \in PollParams("B") :
       params = [p \in Pollers |-> IF p = "A" THEN pa ELSE pb]
  /\ store = EmptyStore(NoInputs, NoConfig)
  /\ snapshot = store
  /\ InitTasks

SpecAB == InitAB /\ [][Next]_vars

\* The active-request refresher: a request may be selected and cached, its
\* chain's calls may fail at any time, the selection may change at any time.
CachedRequests ==
  {Undef} \cup {Some([currency |-> "t1", data |-> "x", state |-> s]) : s \in RequestStates}
Intervals == {Undef, Some(5)}

InitActive ==
  /\ registry = {}
  /\ health = [c \in Chains |-> "flaky"]
  /\ params = [p \in Pollers |-> NoParams(p)]
  /\ \E sel \in ActiveSelections, r \in CachedRequests, i \in Intervals :
       store = [EmptyStore([request |-> sel, user |-> Undef],
                           [c \in Chains |-> [checkTxIntervalSec |-> IF c = 1 THEN i ELSE Undef]])
                  EXCEPT !.requests = [c \in Chains |-> [k \in Keys |->
                                         IF k = "k1" THEN r ELSE Undef]]]
  /\ snapshot = store
  /\ InitTasks

ActiveNext ==
  \/ ActiveStart
  \/ UpdateRequestGotRequest("R")
  \/ UpdateRequestGotState("R")
  \/ ActiveRequestDone
  \/ UpdateGotValue("R")
  \/ ActiveTimeDone
  \/ SetActiveRequest

SpecActive == InitActive /\ [][ActiveNext]_vars

\* The refresher while another task moves the selection between the requests
\* of the two chains (or clears it): both requests are cached as proposed.
SwitchRequest ==
  /\ \E s \in Selections : store' = [store EXCEPT !.inputs.request = s]
  /\ store' # store
  /\ UNCHANGED <<health, pollVars, taskVars, activeVars, callerVars, extVars, frame>>

InitSwitch ==
  /\ registry = {}
  /\ health = [c \in Chains |-> "flaky"]
  /\ params = [p \in Pollers |-> NoParams(p)]
  /\ \E sel \in Selections :
       store = [EmptyStore([request |-> sel, user |-> Undef], NoConfig)
                  EXCEPT !.requests = [c \in Chains |-> [k \in Keys |->
                           IF k = "k1"
                           THEN Some([currency |-> "t1", data |-> "x", state |-> "Proposed"])
                           ELSE Undef]]]
  /\ snapshot = store
  /\ InitTasks

SwitchNext ==
  \/ ActiveStart
  \/ UpdateRequestGotRequest("R")
  \/ UpdateRequestGotState("R")
  \/ ActiveRequestDone
  \/ UpdateGotValue("R")
  \/ ActiveTimeDone
  \/ SwitchRequest

SpecSwitch == InitSwitch /\ [][SwitchNext]_vars

\* The executor's timing.  Of a task instance: the invocations of its
\* handler that have returned, the delay the last one returned (none when
\* it rejected), and the time that has passed since it returned, counted
\* up to that delay.
Tasks == Pollers \cup {"R"}
Invoked(p) == IF p = "R" THEN rmemory.iterations ELSE Len(hist[p])
LastResult(p) ==
  IF p = "R" THEN rtick.result
  ELSE IF hist[p] = <<>> THEN [kind |-> "none"] ELSE hist[p][Len(hist[p])].result
LastDelay(p) == IF LastResult(p).kind = "sleep" THEN LastResult(p).ms ELSE 0
Waited(p) == IF clock[p].n = Invoked(p) THEN clock[p].ms ELSE 0

\* Faulty variant: an instance is invoked whenever the executor passes.
Due_Always(p) == TRUE

\* An instance is invoked again no earlier than `now + delay`.
Due(p) == Waited(p) >= LastDelay(p)

\* The time that passes between two passes of the executor.
ElapseSteps == {5 * MsPerSec, 25 * MsPerSec}
Min(a, b) == IF a < b THEN a ELSE b

\* Time passes while an instance waits for its delay.
Elapse ==
  /\ \E p \in Tasks : hpc[p] = "idle" /\ ~Due(p)
  /\ \E d \in ElapseSteps :
       clock' = [p \in Tasks |->
                  IF hpc[p] = "idle"
                  THEN [n |-> Invoked(p), ms |-> Min(Waited(p) + d, LastDelay(p))]
                  ELSE clock[p]]
  /\ UNCHANGED <<health, pollVars, taskVars, activeVars, callerVars, outer, sorted,
                 onchain, anc, api, fetched, frame, store>>

\* The executor invokes the handler of an instance that is due.
ExecPollStart(p) == Due(p) /\ ticks[p] < MaxExecTicks /\ PollStart(p)
ExecActiveStart == Due("R") /\ ticks["R"] < MaxExecTicks /\ ActiveStart

\* A new-event poller and the active-request refresher under the executor,
\* on chains whose calls succeed; the selected request is settled, so the
\* refresher refreshes the time only.
InitExec ==
  /\ registry = {"A"}
  /\ health = [c \in Chains |-> "up"]
  /\ \E ps \in PollParams("A") : params = [p \in Pollers |-> IF p = "A" THEN ps ELSE NoParams(p)]
  /\ \E i \in Intervals :
       store = [EmptyStore([request |-> Some([chainId |-> 1, key |-> "k1"]), user |-> Undef],
                           [c \in Chains |-> [checkTxIntervalSec |-> i]])
                  EXCEPT !.requests[1]["k1"] =
                           Some([currency |-> "t1", data |-> "x", state |-> "Settled"])]
  /\ snapshot = store
  /\ InitTasks

ExecNext ==
  \/ Elapse
  \/ ExecPollStart("A")
  \/ PollGotBlock("A")
  \/ UpdateOracleEventsGotBlock("A")
  \/ UpdateOracleEventsGotEvents("A")
  \/ PollEventsDone("A")
  \/ ExecActiveStart
  \/ UpdateGotValue("R")
  \/ ActiveTimeDone

SpecExec == InitExec /\ [][ExecNext]_vars

\* The AncillaryData library, called on every input.
InitAncillary ==
  /\ registry = {}
  /\ health = [c \in Chains |-> "flaky"]
  /\ params = [p \in Pollers |-> NoParams(p)]
  /\ store = EmptyStore(NoInputs, NoConfig)
  /\ snapshot = store
  /\ InitRest
  /\ anc \in AncInputs
  /\ api = NoApi

AncillaryNext == ToUtf8BytesCall \/ AppendAddressKeyCall

SpecAncillary == InitAncillary /\ [][AncillaryNext]_vars

\* The datastore API's block-range update, from any persisted lastBlockUpdate.
InitApi ==
  /\ registry = {}
  /\ health = [c \in Chains |-> "flaky"]
  /\ params = [p \in Pollers |-> NoParams(p)]
  /\ store = EmptyStore(NoInputs, NoConfig)
  /\ snapshot = store
  /\ InitRest
  /\ anc = NoAnc
  /\ \E b \in Blocks : api = [NoApi EXCEPT !.lastBlockUpdate = b]

ApiNext == UpdateContractState \/ ContractStateStepDone

SpecApi == InitApi /\ [][ApiNext]_vars

\* The Update methods, invoked one after another by a direct caller.
InitUpdate ==
  /\ registry = {}
  /\ health = [c \in Chains |-> "flaky"]
  /\ params = [p \in Pollers |-> NoParams(p)]
  /\ \E sel \in Selections, u \in {Undef} \cup {Some(a) : a \in Accounts} :
       store = EmptyStore([request |-> sel, user |-> u], NoConfig)
  /\ snapshot = store
  /\ InitTasks

UpdateNext ==
  \/ Invoke
  \/ UpdateRequestGotRequest("U")
  \/ UpdateRequestGotState("U")
  \/ UpdateGotValue("U")
  \/ UpdateOracleEventsGotBlock("U")
  \/ UpdateOracleEventsGotEvents("U")

SpecUpdate == InitUpdate /\ [][UpdateNext]_vars

\* Every public method of Update, invoked by a direct caller on a store in
\* which nothing is fetched yet or the selected request is.
FetchedStores(sel, u) ==
  LET empty == EmptyStore([request |-> sel, user |-> u], NoConfig) IN
  {empty} \cup
    (IF IsDef(sel)
     THEN {WriteRequest(empty, Val(sel).chainId, Val(sel).key,
                        [currency |-> "t1", data |-> "x"], "Requested")}
     ELSE {})

InitFetcher ==
  /\ registry = {}
  /\ health = [c \in Chains |-> "flaky"]
  /\ params = [p \in Pollers |-> NoParams(p)]
  /\ \E sel \in Selections, u \in {Undef} \cup {Some(a) : a \in Accounts} :
       store \in FetchedStores(sel, u)
  /\ snapshot = store
  /\ InitTasks

FetcherNext ==
  \/ FetcherInvoke
  \/ InvokeSortedRequests(MaxFetcherCalls)
  \/ InvokeAll
  \/ UpdateAllStepDone("U")
  \/ UpdateRequestGotRequest("U")
  \/ UpdateRequestGotState("U")
  \/ UpdateGotValue("U")
  \/ UpdateOracleEventsGotBlock("U")
  \/ UpdateOracleEventsGotEvents("U")
  \/ UpdateIsConfirmedDone("U")
  \/ UpdateSortedRequestsDone("U")

SpecFetcher == InitFetcher /\ [][FetcherNext]_vars

\* The methods that act on the selection (oracle, request, collateralProps,
\* userCollateralBalance, oracleAllowance), invoked by a direct caller while
\* other tasks change the selected request and the user.  The request of
\* each chain is cached, with a currency of its own.
SelectInvoke ==
  /\ Idle
  /\ ncalls < MaxCalls
  /\ \E m \in {AllSteps[k] : k \in 1 .. Len(AllSteps)} :
       frame' = [frame EXCEPT !["U"] = StepCall(store, m)]
  /\ snapshot' = store
  /\ ncalls' = ncalls + 1
  /\ UNCHANGED <<health, pollVars, taskVars, activeVars, store, extVars>>

\* Another task sets or clears the user (the setUser and clearUser workflows).
SwitchUser ==
  /\ \E u \in {Undef} \cup {Some(a) : a \in Accounts} :
       store' = [store EXCEPT !.inputs.user = u]
  /\ store' # store
  /\ UNCHANGED <<health, pollVars, taskVars, activeVars, callerVars, extVars, frame>>

InitSelect ==
  /\ registry = {}
  /\ health = [c \in Chains |-> "flaky"]
  /\ params = [p \in Pollers |-> NoParams(p)]
  /\ \E sel \in Selections, u \in {Undef} \cup {Some(a) : a \in Accounts} :
       store = WriteRequest(
                 WriteRequest(EmptyStore([request |-> sel, user |-> u], NoConfig),
                              1, "k1", [currency |-> "t1", data |-> "x"], "Requested"),
                 2, "k1", [currency |-> "t2", data |-> "y"], "Requested")
  /\ snapshot = store
  /\ InitTasks

SelectNext ==
  \/ SelectInvoke
  \/ SwitchRequest
  \/ SwitchUser
  \/ UpdateRequestGotRequest("U")
  \/ UpdateRequestGotState("U")
  \/ UpdateGotValue("U")

SpecSelect == InitSelect /\ [][SelectNext]_vars

\* Update.request while the request changes on chain.  The history of the
\* request on chain: requested, then proposed (its fields change with the
\* proposal), then expired.
Timeline ==
  <<[currency |-> "t1", data |-> "x", state |-> "Requested"],
    [currency |-> "t1", data |-> "y", state |-> "Proposed"],
    [currency |-> "t1", data |-> "y", state |-> "Expired"]>>

\* What oo.getRequest and oo.getState answer at a moment of the history.
RequestAt(i) == [currency |-> Timeline[i].currency, data |-> Timeline[i].data]
StateAt(i) == Timeline[i].state

\* A transaction of another party moves the request on.
ChainAdvance ==
  /\ onchain < Len(Timeline)
  /\ onchain' = onchain + 1
  /\ UNCHANGED <<health, pollVars, taskVars, activeVars, callerVars, outer, sorted, clock,
                 anc, api, fetched, frame, store>>

\* A caller invokes Update.request for the request.
InvokeRequest ==
  /\ Idle
  /\ ncalls < MaxCalls
  /\ frame' = [frame EXCEPT !["U"] = RequestCall(store, Some([chainId |-> 1, key |-> "k1"]))]
  /\ snapshot' = store
  /\ ncalls' = ncalls + 1
  /\ UNCHANGED <<health, pollVars, taskVars, activeVars, store, extVars>>

\* `await oo.getRequest(...)` settles with the request as it is on chain.
OnchainGotRequest(c) ==
  /\ Awaits(c, "request", "getRequest")
  /\ \E r \in Outcomes(health[frame[c].args.chainId], "getRequest", {RequestAt(onchain)}) :
       frame' = [frame EXCEPT ![c] = RequestGotRequest(@, r)]
  /\ UNCHANGED <<Others, store>>

\* `await oo.getState(...)` settles with the state as it is on chain; the
\* record is written.
OnchainGotState(c) ==
  /\ Awaits(c, "request", "getState")
  /\ \E r \in Outcomes(health[frame[c].args.chainId], "getState", {StateAt(onchain)}) :
       /\ frame' = [frame EXCEPT ![c] = AfterRead(@, r)]
       /\ store' = AfterWrite(store, frame[c], r)
  /\ UNCHANGED Others

InitOnchain ==
  /\ registry = {}
  /\ health = [c \in Chains |-> "flaky"]
  /\ params = [p \in Pollers |-> NoParams(p)]
  /\ store = EmptyStore(NoInputs, NoConfig)
  /\ snapshot = store
  /\ InitTasks

OnchainNext ==
  \/ ChainAdvance
  \/ InvokeRequest
  \/ OnchainGotRequest("U")
  \/ OnchainGotState("U")

SpecOnchain == InitOnchain /\ [][OnchainNext]_vars

\* Two callers refresh two requests of one chain at the same time: each
\* invokes Update.request once, for its own request key.
PairCallers == {"U", "V"}
PairKey(c) == IF c = "U" THEN "k1" ELSE "k2"

PairInvoke(c) ==
  /\ frame[c].pc = "none"
  /\ frame' = [frame EXCEPT ![c] =
       RequestCall(store, Some([chainId |-> 1, key |-> PairKey(c)]))]
  /\ UNCHANGED <<Others, store>>

\* `await oo.getState(...)` settles; the record is written.  What the
\* invocation fetched is kept aside.
PairGotState(c) ==
  /\ Awaits(c, "request", "getState")
  /\ \E r \in Outcomes(health[frame[c].args.chainId], "getState", RequestStates) :
       /\ frame' = [frame EXCEPT ![c] = AfterRead(@, r)]
       /\ store' = AfterWrite(store, frame[c], r)
       /\ fetched' = [fetched EXCEPT ![c] =
            IF r.ok THEN Some(frame[c].args.fullRequest @@ [state |-> r.v]) ELSE @]
  /\ UNCHANGED <<health, pollVars, taskVars, activeVars, callerVars, outer, sorted,
                 onchain, clock, anc, api>>

InitPair ==
  /\ registry = {}
  /\ health = [c \in Chains |-> "flaky"]
  /\ params = [p \in Pollers |-> NoParams(p)]
  /\ store = EmptyStore(NoInputs, NoConfig)
  /\ snapshot = store
  /\ InitTasks

PairNext ==
  \E c \in PairCallers :
    \/ PairInvoke(c)
    \/ UpdateRequestGotRequest(c)
    \/ PairGotState(c)

SpecPair == InitPair /\ [][PairNext]_vars

\* Event ranges and request listings: a caller writes ranges of events of
\* the two chains and lists their requests, on a store that holds the
\* events of the blocks up to some block of each chain, or none.
EventLogs == {{}} \cup {QueryFilter(0, b) : b \in Blocks}

InitListing ==
  /\ registry = {}
  /\ health = [c \in Chains |-> "flaky"]
  /\ params = [p \in Pollers |-> NoParams(p)]
  /\ \E e1 \in EventLogs, e2 \in EventLogs :
       store = [EmptyStore(NoInputs, NoConfig) EXCEPT
                  !.events = [c \in Chains |-> IF c = 1 THEN e1 ELSE e2]]
  /\ snapshot = store
  /\ InitTasks

ListingNext ==
  \/ InvokeOracleEvents
  \/ InvokeSortedRequests(MaxListingCalls)
  \/ UpdateOracleEventsGotEvents("U")
  \/ UpdateSortedRequestsDone("U")

SpecListing == InitListing /\ [][ListingNext]_vars

\* ============================================================= properties
\* The finished invocations of poller p.
FinishedInvocations(p) == {hist[p][k] : k \in 1 .. Len(hist[p])}

\* `a ?? b ?? c`: the first of a, b, c that is defined.
Nullish(a, b, c) == IF IsDef(a) THEN a ELSE IF IsDef(b) THEN b ELSE c

\* The update.oracleEvents call for the range current .. latest of chain c.
FetchCall(c, current, latest) ==
  [m |-> "oracleEvents", chainId |-> c, startBlock |-> current, endBlock |-> latest]

\* C1: in every invocation of the new-event poller that issued an event
\* fetch (update.oracleEvents), memory.lastBlock after the invocation is
\* memory.lastBlock before it when the fetch failed, and the latest block
\* read in that invocation when the fetch succeeded.
C1_FetchDecidesCheckpoint ==
  \A p \in Pollers : \A h \in FinishedInvocations(p) :
    h.calls # <<>> =>
      /\ h.fetch \in {"ok", "failed"}
      /\ h.fetch = "failed" => h.after.lastBlock = h.before
      /\ h.fetch = "ok" => h.after.lastBlock = h.latest

\* C1 witness: a fetch succeeded and moved the checkpoint, and the fetch of
\* the next invocation failed.
C1_Witness ==
  /\ Len(hist["A"]) >= 2
  /\ hist["A"][1].fetch = "ok"
  /\ IsDef(hist["A"][1].after.lastBlock)
  /\ hist["A"][2].fetch = "failed"
  /\ hist["A"][2].latest # hist["A"][2].before

\* C2: memory.lastBlock, once set, never decreases, whatever latest block
\* the provider returns, and it changes only in an invocation whose event
\* fetch for the range ending at the new value succeeded.
C2_CheckpointMonotonic ==
  \A p \in Pollers : \A h \in FinishedInvocations(p) :
    /\ IsDef(h.before) =>
         IsDef(h.after.lastBlock) /\ Val(h.after.lastBlock) >= Val(h.before)
    /\ h.after.lastBlock # h.before =>
         h.fetch = "ok" /\ h.calls[1].endBlock = h.after.lastBlock

\* C3: in every invocation that read the latest block, the start of the
\* range is memory.lastBlock if defined, else params.startBlock if defined,
\* else the latest block, 0 being a defined value.
C3_CheckpointNullish ==
  \A p \in Pollers : \A h \in FinishedInvocations(p) :
    IsDef(h.latest) => h.current = Nullish(h.before, params[p].startBlock, h.latest)

C5_FailuresStayInMemory ==
  \A p \in Pollers : \A h \in FinishedInvocations(p) :
    /\ h.result.kind = "sleep"
    /\ h.failed # {} => IsDef(h.after.error) /\ Val(h.after.error) \in h.failed

\* C6: with every external call of chain A failing and every call of chain
\* B succeeding on strictly increasing latest blocks, after three
\* invocations each B's checkpoint is the latest block of each of its
\* invocations, A's checkpoint is its initial value, and no invocation
\* rejected.
C6_Premise ==
  /\ Len(hist["A"]) = 3
  /\ Len(hist["B"]) = 3
  /\ \A k \in 1 .. 3 : hist["A"][k].failed # {} /\ ~IsDef(hist["A"][k].latest)
  /\ \A k \in 1 .. 3 : hist["B"][k].failed = {} /\ IsDef(hist["B"][k].latest)
  /\ \A k \in 1 .. 2 : Val(hist["B"][k].latest) < Val(hist["B"][k + 1].latest)

C6_IsolatedFailure ==
  C6_Premise =>
    /\ \A k \in 1 .. 3 : hist["B"][k].after.lastBlock = hist["B"][k].latest
    /\ hist["A"][3].after.lastBlock = initMemory.lastBlock
    /\ \A p \in Pollers : \A h \in FinishedInvocations(p) : h.result.kind # "threw"

\* The refresher's last invocation has returned.
ActiveFinished == hpc["R"] = "idle" /\ ticks["R"] > 0

\* The number of calls named m in a sequence of calls.
Count(s, m) == Cardinality({k \in 1 .. Len(s) : s[k] = m})

\* C7: in every invocation of the active-request refresher that read a
\* cached request in state Settled or Invalid, update.request is never
\* called and update.currentTime is called exactly once; in every
\* invocation that read any other state, update.request is called exactly
\* once.
C7_TerminalStatesSkipRefresh ==
  IsDef(rtick.request) =>
    IF Val(rtick.request).state \in {"Settled", "Invalid"}
    THEN rtick.calls = <<"currentTime">>
    ELSE Count(rtick.calls, "request") = 1

\* C7 witness: an invocation that read a Settled request has returned after
\* refreshing the time only.
C7_Witness ==
  /\ ActiveFinished
  /\ IsDef(rtick.request)
  /\ Val(rtick.request).state = "Settled"
  /\ rtick.calls = <<"currentTime">>
  /\ rtick.outcomes = <<"ok">>

\* C8: whatever the store holds and whatever fails, an invocation of the
\* refresher never rejects: every error thrown in it is in memory.error,
\* memory.iterations has grown by one, and it returns a sleep of
\* checkTxIntervalSec * 1000 ms, 30 s when the chain config cannot be read
\* or sets no interval.
C8_NeverAborts ==
  /\ rtick.result.kind # "threw"
  /\ rmemory.iterations = IF hpc["R"] = "idle" THEN ticks["R"] ELSE ticks["R"] - 1
  /\ ActiveFinished =>
       /\ rtick.result.kind = "sleep"
       /\ rtick.result.ms =
            IF Val(rtick.config).ok /\ IsDef(Val(rtick.config).v.checkTxIntervalSec)
            THEN Val(Val(rtick.config).v.checkTxIntervalSec) * MsPerSec
            ELSE DefaultCheckTxIntervalSec * MsPerSec
       /\ IF rtick.failed = {} THEN ~IsDef(rmemory.error)
          ELSE IsDef(rmemory.error) /\ Val(rmemory.error) \in rtick.failed

\* C8 witness: a refresh failed, the selection was cleared before the
\* invocation returned, and it returned the default sleep.
C8_Witness ==
  /\ ActiveFinished
  /\ rtick.failed = {"getState"}
  /\ ~Val(rtick.config).ok
  /\ rtick.result = [kind |-> "sleep", ms |-> DefaultCheckTxIntervalSec * MsPerSec]

\* C9 as claimed: in every invocation that read a request neither Invalid
\* nor Settled, both update.request and update.currentTime are called,
\* whether or not update.request succeeded.
C9_AlwaysBothRefreshes ==
  (ActiveFinished /\ IsDef(rtick.request) /\ ShouldUpdate(Val(rtick.request))) =>
    rtick.calls = <<"request", "currentTime">>

\* C9 as amended: in every invocation that read a request neither Invalid
\* nor Settled, update.request is called, and update.currentTime is called
\* after it exactly when update.request succeeded.
C9_TimeAfterSuccessfulRefresh ==
  (ActiveFinished /\ IsDef(rtick.request) /\ ShouldUpdate(Val(rtick.request))) =>
    IF rtick.outcomes[1] = "ok"
    THEN rtick.calls = <<"request", "currentTime">>
    ELSE rtick.calls = <<"request">> /\ rtick.outcomes = <<"failed">>

\* C9 witness: the request refresh failed and the invocation returned
\* without calling update.currentTime.
C9_Witness ==
  /\ ActiveFinished
  /\ IsDef(rtick.request)
  /\ Val(rtick.request).state = "Proposed"
  /\ rtick.calls = <<"request">>
  /\ rtick.outcomes = <<"failed">>

\* The external reads an invocation issued, by name.
ReadNames(f) == {f.reads[k].call : k \in 1 .. Len(f.reads)}

\* C10: an Update method of which an external read failed rejects with that
\* read's error, has issued each external read at most once, and has left
\* the store as it was when it was invoked.
C10_FailurePropagates ==
  LET f == frame["U"] IN
  /\ Cardinality(ReadNames(f)) = Len(f.reads)
  /\ IsDef(f.rejected) =>
       /\ Thrown(f)
       /\ f.err = f.rejected
       /\ f.writes = 0
       /\ store = snapshot

\* C10 witness: Update.request failed at its second read, getState, in a
\* store an earlier invocation had written to.
C10_Witness ==
  LET f == frame["U"] IN
  /\ f.m = "request"
  /\ f.rejected = Some("getState")
  /\ f.reads[1].call = "getRequest"
  /\ store.erc20s # {}

\* C11 as claimed: every invocation of a public method of Update that
\* returned, all(), isConfirmed() and sortedRequests() included, has made
\* exactly one store write transaction.
C11_OneWriteEveryMethod ==
  /\ (Returned(frame["U"]) /\ outer.m = "none") => frame["U"].writes = 1
  /\ outer.pc = "returned" => outer.writes = 1

\* C11 as amended: an invocation of request, oracle, userCollateralBalance,
\* collateralProps, oracleAllowance, balance, allowance, currentTime,
\* oracleEvents or sortedRequests that returned has made exactly one store
\* write transaction, and none before it returned; one of isConfirmed() has
\* made none; one of all() has made five, one per method it awaits.
C11_OneWritePerRefresh ==
  LET f == frame["U"] IN
  /\ Returned(f) => f.writes = (IF f.m = "isConfirmed" THEN 0 ELSE 1)
  /\ ~Returned(f) => f.writes = 0
  /\ outer.pc = "returned" => outer.writes = Len(AllSteps)
  /\ outer.pc = "running" => outer.writes = outer.step - 1

\* C11 witness: all() has returned after its five write transactions.
C11_Witness ==
  /\ outer.pc = "returned"
  /\ outer.writes = 5
  /\ frame["U"].m = "oracleAllowance"
  /\ Returned(frame["U"])

\* Every request record in the store has its currency's erc20 service
\* registered.
RequestsHaveServices ==
  \A c \in Chains : \A k \in Keys :
    IsDef(store.requests[c][k]) => <<c, Val(store.requests[c][k]).currency>> \in store.erc20s

\* The store changes only in the step in which the caller's invocation
\* returns, and then holds everything that invocation writes: the request
\* record together with its currency's service, or every event of the
\* queried range.
WritesAreWhole ==
  LET f == frame["U"]
      g == frame'["U"]
  IN
  store' # store =>
    /\ ~Returned(f) /\ Returned(g) /\ g.m = f.m
    /\ store = snapshot
    /\ f.m = "request" =>
         /\ IsDef(store'.requests[f.args.chainId][f.args.key])
         /\ <<f.args.chainId, f.args.fullRequest.currency>> \in store'.erc20s
    /\ f.m = "oracleEvents" =>
         /\ QueryFilter(f.args.startBlock, Val(f.args.endBlock))
              \subseteq store'.events[f.args.chainId]
         /\ store'.events[f.args.chainId] \ store.events[f.args.chainId]
              \subseteq QueryFilter(f.args.startBlock, Val(f.args.endBlock))

\* C12: of every invocation of a method of Update a reader sees all the
\* fields it writes or none: the store changes only in the step in which
\* the invocation commits, a request record is never in the store without
\* its currency's erc20 service, and the events of an oracleEvents range
\* are in the store all or not at all.  (all() is five such invocations.)
C12_TransactionsAtomic == [](RequestsHaveServices) /\ [][WritesAreWhole]_vars

\* C12 witness: Update.request has returned; the record and the service of
\* its currency are in a store that held neither.
C12_Witness ==
  LET f == frame["U"] IN
  /\ f.m = "request"
  /\ Returned(f)
  /\ outer.m = "none"
  /\ ~IsDef(snapshot.requests[f.args.chainId][f.args.key])
  /\ IsDef(store.requests[f.args.chainId][f.args.key])
  /\ <<f.args.chainId, f.args.fullRequest.currency>> \in store.erc20s \ snapshot.erc20s

\* C13: the record Update.request writes has the fields and the state the
\* request had on chain at one moment of its history.
C13_ConsistentReads ==
  \A k \in Keys :
    IsDef(store.requests[1][k]) =>
      \E i \in 1 .. onchain : Val(store.requests[1][k]) = Timeline[i]

\* The requests derived from the events a store holds for a chain.
Derived(st, chainId) == GetEventState(ReadOracleEvents(st, chainId))

\* C14: writing the events of a range of blocks twice leaves the same
\* derived requests, and the same request listing, as writing it once; an
\* invocation of Update.oracleEvents for a range whose events the store
\* held has left the derived requests as they were.
C14_RewriteIsIdempotent ==
  LET f == frame["U"] IN
  /\ \A c \in Chains : \A s \in Blocks : \A e \in Blocks :
       LET once == WriteEvents(store, c, QueryFilter(s, e))
           twice == WriteEvents(once, c, QueryFilter(s, e))
       IN /\ Derived(twice, c) = Derived(once, c)
          /\ SortedRequestsSet(twice, sorted, c) = SortedRequestsSet(once, sorted, c)
  /\ (f.m = "oracleEvents" /\ Returned(f)
        /\ QueryFilter(f.args.startBlock, Val(f.args.endBlock))
             \subseteq snapshot.events[f.args.chainId]) =>
       Derived(store, f.args.chainId) = Derived(snapshot, f.args.chainId)

\* C14 witness: the third invocation has written again the last block of a
\* range the store held, a range with events of both request keys.
C14_Witness ==
  LET f == frame["U"] IN
  /\ f.m = "oracleEvents"
  /\ Returned(f)
  /\ ncalls = 3
  /\ f.args.startBlock = 1
  /\ f.args.endBlock = Some(2)
  /\ {0, 1, 2} \subseteq snapshot.events[f.args.chainId]
  /\ DOMAIN Derived(store, f.args.chainId) = Keys

\* C15: of two invocations of Update.request for two request keys of one
\* chain, run interleaved, each one that returned has left in the store,
\* under its key, the record it fetched, whatever the other one did; no
\* record is in the store under a key nobody fetched.
C15_WriteIsolation ==
  /\ \A c \in PairCallers :
       Returned(frame[c]) => /\ IsDef(fetched[c])
                             /\ store.requests[1][PairKey(c)] = fetched[c]
  /\ \A c \in PairCallers : ~Returned(frame[c]) => ~IsDef(store.requests[1][PairKey(c)])
  /\ \A k \in Keys : ~IsDef(store.requests[2][k])

\* C15 witness: both invocations have returned, having fetched different
\* records.
C15_Witness ==
  /\ Returned(frame["U"])
  /\ Returned(frame["V"])
  /\ Val(fetched["U"]) = [currency |-> "t1", data |-> "x", state |-> "Proposed"]
  /\ Val(fetched["V"]) = [currency |-> "t2", data |-> "y", state |-> "Settled"]

\* The entries of the sorted-requests service that belong to a chain.
EntriesOf(entries, chainId) == {e \in entries : e.value.chainId = chainId}

\* Every entry is kept under its request key and its chain, and an
\* invocation of sortedRequests for a chain has an entry for every request
\* derived from the chain's events.
ListingIsQualified ==
  LET f == frame["U"] IN
  /\ \A e \in sorted : e.id = <<e.value.key, e.value.chainId>>
  /\ \A e \in sorted : \A o \in sorted : e.id = o.id => e = o
  /\ f.m = "sortedRequests" =>
       \A k \in DOMAIN Derived(snapshot, f.args.chainId) :
         [id |-> <<k, f.args.chainId>>,
          value |-> Derived(snapshot, f.args.chainId)[k] @@ [chainId |-> f.args.chainId]]
           \in sorted

\* A step that changes the entries runs sortedRequests for one chain and
\* leaves the entries of every other chain as they were.
ListingKeepsOtherChains ==
  sorted' # sorted =>
    /\ frame'["U"].m = "sortedRequests"
    /\ \A c \in Chains \ {frame'["U"].args.chainId} :
         EntriesOf(sorted', c) = EntriesOf(sorted, c)

\* C16: the sorted-requests service keeps the requests of different chains
\* under different keys: after sortedRequests has run for two chains whose
\* events give the same request key there is one entry per chain, each with
\* its chainId, and a run for one chain never changes the entry of another.
C16_ChainQualifiedKeys == [](ListingIsQualified) /\ [][ListingKeepsOtherChains]_vars

\* C16 witness: after three listings the service holds the request k1 of
\* chain 1 and the request k1 of chain 2, in different states, and the list
\* written to the store has both.
C16_Witness ==
  /\ ncalls = 3
  /\ Returned(frame["U"])
  /\ frame["U"].m = "sortedRequests"
  /\ [id |-> <<"k1", 1>>,
      value |-> [key |-> "k1", state |-> "Proposed", block |-> 1, chainId |-> 1]] \in sorted
  /\ [id |-> <<"k1", 2>>,
      value |-> [key |-> "k1", state |-> "Requested", block |-> 0, chainId |-> 2]] \in sorted
  /\ Len(store.descendingRequests) = 2

\* C17: the result of an external call that arrives after its task instance
\* was removed from the registry is not applied: a step changes the store
\* only for a poller that is registered.
C17_LateResultsDiscarded ==
  [][store' # store =>
       \E p \in registry : Awaits(p, "oracleEvents", "queryFilter") /\ Returned(frame'[p])]_vars

\* The invocations of the handler of an instance that have started.
Started(p) == ticks[p]

\* An instance has one invocation running or none.
Sequential ==
  \A p \in Tasks : Started(p) = Invoked(p) + (IF hpc[p] = "idle" THEN 0 ELSE 1)

\* An invocation starts when the previous one has returned and the delay it
\* returned has passed.
StartsAfterDelay ==
  \A p \in Tasks :
    Started(p)' = Started(p) + 1 =>
      /\ hpc[p] = "idle"
      /\ Started(p) = Invoked(p)
      /\ Waited(p) >= LastDelay(p)
      /\ (p \in Pollers /\ LastResult(p).kind = "sleep") =>
           LastDelay(p) = Val(Default(params[p].pollRateSec, DefaultPollRateSec)) * MsPerSec
      /\ (p = "R" /\ LastResult(p).kind = "sleep") =>
           LastDelay(p) = Val(Default(store.config[1].checkTxIntervalSec,
                                      DefaultCheckTxIntervalSec)) * MsPerSec

\* C18: the invocations of the handler of each poller instance are strictly
\* sequential, and each starts no earlier than the delay the previous one
\* returned (pollRateSec * 1000 ms, checkTxIntervalSec * 1000 ms) after it.
C18_SequentialAfterDelay == [](Sequential) /\ [][StartsAfterDelay]_vars

\* C18 witness: the second invocations of the poller and of the refresher
\* run, each started when the default delay of its handler had passed.
C18_Witness ==
  /\ ticks["A"] = 2 /\ hpc["A"] # "idle"
  /\ ticks["R"] = 2 /\ hpc["R"] # "idle"
  /\ clock["A"] = [n |-> 1, ms |-> DefaultPollRateSec * MsPerSec]
  /\ clock["R"] = [n |-> 1, ms |-> DefaultCheckTxIntervalSec * MsPerSec]

\* The characters 0-9 and a-f in utf8, and an address in them.
HexDigits == <<48, 49, 50, 51, 52, 53, 54, 55, 56, 57, 97, 98, 99, 100, 101, 102>>
HexOf(address) ==
  [j \in 1 .. 2 * Len(address) |->
     IF j % 2 = 1 THEN HexDigits[(address[(j + 1) \div 2] \div 16) + 1]
     ELSE HexDigits[(address[j \div 2] % 16) + 1]]

\* C19: appendAddressKey returns the current data, then "," when the data
\* is not empty, then the key, ":" and the 40 lower-case hex characters of
\* the address, whatever bytes the data and the key are.
C19_AppendAddressKey ==
  anc.op = "appendAddressKey" =>
    anc.out = IF anc.data # <<>>
              THEN anc.data \o <<44>> \o anc.key \o <<58>> \o HexOf(anc.address)
              ELSE anc.key \o <<58>> \o HexOf(anc.address)

\* C19 witness: the key "address" was appended to data that is not utf8.
C19_Witness ==
  /\ anc.op = "appendAddressKey"
  /\ anc.data = <<171>>
  /\ anc.key = <<97, 100, 100, 114, 101, 115, 115>>
  /\ Len(anc.out) = 1 + 9 + 40
  /\ anc.out[2] = 44

\* C20: toUtf8Bytes returns 40 bytes, bytes 2i and 2i+1 the characters of
\* the high and the low nibble of byte i of the address, each one of 0-9
\* and a-f.
C20_ToUtf8Bytes ==
  anc.op = "toUtf8Bytes" =>
    /\ Len(anc.out) = 40
    /\ \A i \in 0 .. 19 :
         /\ anc.out[2 * i + 1] = HexDigits[(anc.address[i + 1] \div 16) + 1]
         /\ anc.out[2 * i + 2] = HexDigits[(anc.address[i + 1] % 16) + 1]
    /\ \A j \in 1 .. 40 : \E d \in 1 .. 16 : anc.out[j] = HexDigits[d]

\* C20 witness: an address that starts with the bytes 0xff and 0x0f: "ff0f".
C20_Witness ==
  /\ anc.op = "toUtf8Bytes"
  /\ anc.address[1] = 255
  /\ anc.address[2] = 15
  /\ SubSeq(anc.out, 1, 4) = <<102, 102, 48, 102>>

\* Poller A was started with no startBlock, and an invocation after its
\* first read a higher latest block than the first and had no failure.
HeadAdvanced(k) ==
  /\ ~IsDef(params["A"].startBlock)
  /\ IF 1 < k /\ k <= Len(hist["A"])
     THEN /\ hist["A"][k].failed = {}
          /\ IF IsDef(hist["A"][1].latest) /\ IsDef(hist["A"][k].latest)
             THEN Val(hist["A"][k].latest) > Val(hist["A"][1].latest)
             ELSE FALSE
     ELSE FALSE

\* memory.lastBlock is defined and the events of the block that invocation
\* read are in the store.
HeadFetched(k) ==
  IF k <= Len(hist["A"]) /\ IsDef(hist["A"][k].latest)
  THEN /\ IsDef(memory["A"].lastBlock)
       /\ Val(hist["A"][k].latest) \in store.events[ChainOf("A")]
  ELSE FALSE

Fetched(p) == {k \in 1 .. Len(hist[p]) : hist[p][k].fetch = "ok"}
PreviousFetched(p, k) ==
  IF \E j \in Fetched(p) : j < k
  THEN CHOOSE j \in Fetched(p) : j < k /\ \A i \in Fetched(p) : i < k => i <= j
  ELSE 0

\* Each successful fetch starts at the end block of the one before it, the
\* first one at params.startBlock.
RangesAreContiguous ==
  \A p \in Pollers : \A k \in Fetched(p) :
    LET j == PreviousFetched(p, k) IN
    hist[p][k].calls[1].startBlock =
      IF j = 0 THEN params[p].startBlock ELSE hist[p][j].calls[1].endBlock

\* After a failed fetch the next invocation that reads the latest block
\* starts from the same block, and fetches unless the latest block is it.
FailedRangeIsRetried ==
  \A p \in Pollers : \A k \in 1 .. Len(hist[p]) - 1 :
    (hist[p][k].fetch = "failed" /\ IsDef(hist[p][k + 1].latest)) =>
      /\ hist[p][k + 1].current = hist[p][k].current
      /\ hist[p][k + 1].latest # hist[p][k + 1].current => Len(hist[p][k + 1].calls) = 1

\* C22: the successful fetches of a poller leave no gap, and a failed fetch
\* is retried from the same start block.
C22_NoGap == RangesAreContiguous /\ FailedRangeIsRetried

\* C23: Update.oracleEvents queries exactly the range the caller passed:
\* it reads the provider's latest block only when no endBlock was passed
\* (also not when endBlock is 0), and queryFilter is issued from startBlock
\* to the endBlock passed.
C23_ExactRange ==
  LET f == frame["U"] IN
  f.m = "oracleEvents" =>
    /\ f.pc = "getBlockNumber" => ~IsDef(f.args.endBlock)
    /\ \A k \in 1 .. Len(f.reads) :
         f.reads[k].call = "queryFilter" =>
           /\ f.reads[k].from = f.args.startBlock
           /\ k = 1 => f.reads[k].to = Val(f.args.endBlock)

\* The invocations of poller p that returned.
ReturnedInvocations(p) == {k \in 1 .. Len(hist[p]) : hist[p][k].result.kind # "threw"}

\* C24: every invocation of the new-event poller that returns, returns a
\* sleep of pollRateSec * 1000 ms, 50 000 ms when pollRateSec is not given,
\* whether it fetched, skipped or failed; memory.iterations is the number of
\* invocations that have returned.
C24_AlwaysSleeps ==
  \A p \in Pollers :
    /\ \A k \in ReturnedInvocations(p) :
         hist[p][k].result =
           [kind |-> "sleep",
            ms |-> IF IsDef(params[p].pollRateSec) THEN Val(params[p].pollRateSec) * 1000
                   ELSE 50000]
    /\ hpc[p] = "idle" => memory[p].iterations = Cardinality(ReturnedInvocations(p))

\* C24 witness: an invocation that fetched, one that skipped and one whose
\* fetch failed have returned, each with the sleep of the given poll rate.
C24_Witness ==
  /\ Len(hist["A"]) = 3
  /\ {hist["A"][k].fetch : k \in 1 .. 3} = {"ok", "none", "failed"}
  /\ \A k \in 1 .. 3 : hist["A"][k].result = [kind |-> "sleep", ms |-> 7000]
  /\ memory["A"].iterations = 3

\* After an invocation of a new-event poller memory.error is defined
\* exactly when a read or the fetch of that invocation failed.
PollerErrorIsOfLastTick ==
  \A p \in Pollers : \A h \in FinishedInvocations(p) :
    IsDef(h.after.error) <=> h.failed # {}

\* The same of the active-request refresher.
RefresherErrorIsOfLastTick ==
  ActiveFinished => (IsDef(rmemory.error) <=> rtick.failed # {})

\* C25: in both pollers memory.error reflects the most recent invocation
\* only: it is defined exactly when a read or fetch of that invocation
\* failed, and an error of an earlier invocation never stays.
C25_ErrorOfLastTickOnly == PollerErrorIsOfLastTick /\ RefresherErrorIsOfLastTick

\* C26: when the refresher goes from update.request() to update.currentTime()
\* in one invocation, the time is read from and written under the chain of
\* the request that invocation refreshed, whatever is selected by then.
C26_TimeOfRefreshedChain ==
  [][(hpc["R"] = "request" /\ hpc'["R"] = "currentTime" /\ frame'["R"].pc # "thrown") =>
       /\ frame'["R"].m = "currentTime"
       /\ frame'["R"].args.chainId = frame["R"].args.chainId]_vars

\* What was selected when the caller's invocation began: the chain, the
\* request key, the collateral token and the account.
SelectedChain == Val(RequestChainId(snapshot))
SelectedKey == Val(InputRequest(snapshot)).key
SelectedToken == Val(CollateralService(snapshot))
SelectedAccount == Val(UserAddress(snapshot))

\* Every external read of an invocation is made of the entity selected when
\* it began.
ReadsOfSelected ==
  LET f == frame["U"] IN
  \A k \in 1 .. Len(f.reads) :
    LET read == f.reads[k] IN
    /\ read.chainId = SelectedChain
    /\ f.m = "request" => read.key = SelectedKey
    /\ f.m \in {"collateralProps", "userCollateralBalance", "oracleAllowance"} =>
         read.token = SelectedToken
    /\ f.m \in {"userCollateralBalance", "oracleAllowance"} => read.account = SelectedAccount
    /\ f.m = "oracleAllowance" => read.spender = "oo"

\* The write of an invocation sets the entry of the entity selected when it
\* began, and nothing else.
WritesOfSelected ==
  LET f == frame["U"] IN
  (store' # store /\ store'.inputs = store.inputs) =>
    CASE f.m = "oracle" ->
           \E v \in Vals : store' = [store EXCEPT !.defaultLiveness[SelectedChain] = Some(v)]
      [] f.m = "request" ->
           \E r \in FullRequests, s \in RequestStates :
             store' = [store EXCEPT
                         !.erc20s = @ \cup {<<SelectedChain, r.currency>>},
                         !.requests[SelectedChain][SelectedKey] =
                            Some([currency |-> r.currency, data |-> r.data, state |-> s])]
      [] f.m = "collateralProps" ->
           \E v \in Vals :
             store' = [store EXCEPT !.props[SelectedChain][SelectedToken] = Some(v)]
      [] f.m = "userCollateralBalance" ->
           \E v \in Vals :
             store' = [store EXCEPT
                         !.balances[SelectedChain][SelectedToken][SelectedAccount] = Some(v)]
      [] f.m = "oracleAllowance" ->
           \E v \in Vals :
             store' = [store EXCEPT
                         !.allowances[SelectedChain][SelectedToken][SelectedAccount]["oo"] =
                            Some(v)]

\* C27: oracle, request, collateralProps, userCollateralBalance and
\* oracleAllowance read from and write to the chain, token, account and
\* spender selected when the method started, also when the selection changes
\* while the external read is in flight.
C27_WritesFollowReads == [](ReadsOfSelected) /\ [][WritesOfSelected]_vars

\* C27 witness: userCollateralBalance has written the balance while another
\* chain's request is selected than when it started.
C27_Witness ==
  /\ frame["U"].m = "userCollateralBalance"
  /\ Returned(frame["U"])
  /\ IsDef(RequestChainId(store))
  /\ RequestChainId(store) # RequestChainId(snapshot)
  /\ IsDef(store.balances[SelectedChain][SelectedToken][SelectedAccount])
  /\ ~IsDef(store.balances[Val(RequestChainId(store))][SelectedToken][SelectedAccount])

\* An invocation of all() awaits its steps in order, each after the write
\* of the one before; a step that rejects ends it with the step's error and
\* the writes of the steps before it are in the store.
AllInOrder ==
  LET f == frame["U"] IN
  outer.m = "all" =>
    /\ outer.pc \in {"running", "thrown"} =>
         /\ f.m = <<"oracle", "request", "collateralProps", "userCollateralBalance",
                    "oracleAllowance">>[outer.step]
         /\ outer.writes = outer.step - 1
    /\ outer.pc = "running" => ~Thrown(f) \/ f.writes = 0
    /\ outer.pc = "thrown" => Thrown(f) /\ outer.err = f.err /\ IsDef(f.err) /\ store = snapshot
    /\ outer.pc = "returned" => outer.writes = 5 /\ f.m = "oracleAllowance" /\ Returned(f)
    /\ (outer.step > 1 /\ outer.pc # "returned") =>
         IsDef(store.defaultLiveness[Val(RequestChainId(store))])
    /\ (outer.step > 2 /\ outer.pc # "returned") => IsDef(ReadRequest(store))
    /\ (outer.step > 3 /\ outer.pc # "returned") =>
         IsDef(store.props[Val(RequestChainId(store))][Val(CollateralService(store))])

\* The next step is called only when the awaited step has returned.
AllStepsAfterWrite ==
  (outer.pc = "running" /\ outer'.step # outer.step) =>
    /\ Returned(frame["U"])
    /\ frame["U"].writes = 1
    /\ outer'.step = outer.step + 1

\* C28: all() runs oracle, request, collateralProps, userCollateralBalance,
\* oracleAllowance in that order, each after the one before has written; a
\* failing step stops it, its error reaches the caller and the writes of the
\* steps before it stay in the store.
C28_AllInOrder == [](AllInOrder) /\ [][AllStepsAfterWrite]_vars

\* C28 witness: all() rejected at its fourth step, userCollateralBalance,
\* after three writes that are in the store.
C28_Witness ==
  /\ outer.pc = "thrown"
  /\ outer.step = 4
  /\ outer.writes = 3
  /\ frame["U"].m = "userCollateralBalance"
  /\ IsDef(store.defaultLiveness[Val(RequestChainId(store))])
  /\ IsDef(store.props[Val(RequestChainId(store))][Val(CollateralService(store))])

\* C29: updateContractState(startBlock, endBlock) calls no service and
\* leaves lastBlockUpdate when startBlock = endBlock; fails its assertion
\* before any call when startBlock > endBlock; otherwise calls emps.update,
\* lsps.update, erc20s.update in that order and sets lastBlockUpdate to
\* endBlock only after all three resolved, so that a failure of any of them
\* leaves lastBlockUpdate as it was.
C29_BlockRangeUpdate ==
  api.n > 0 =>
    LET order == <<"emps.update", "lsps.update", "erc20s.update", "setLastBlockUpdate">>
        made == [k \in 1 .. Len(api.calls) |-> api.calls[k].call]
    IN
    /\ api.startBlock = api.endBlock =>
         api.calls = <<>> /\ api.result = "returned" /\ api.lastBlockUpdate = api.before
    /\ api.startBlock > api.endBlock =>
         api.calls = <<>> /\ api.result = "AssertionError" /\ api.lastBlockUpdate = api.before
    /\ api.startBlock < api.endBlock =>
         /\ Len(made) >= 1
         /\ made = SubSeq(order, 1, Len(made))
         /\ \A k \in 1 .. Len(made) :
              api.calls[k].args =
                IF k <= 2 THEN <<api.startBlock, api.endBlock>>
                ELSE IF k = 3 THEN <<>> ELSE <<api.endBlock>>
         /\ api.lastBlockUpdate # api.before =>
              Len(made) = 4 /\ api.result = "returned" /\ api.lastBlockUpdate = api.endBlock
         /\ api.result = "returned" => Len(made) = 4 /\ api.lastBlockUpdate = api.endBlock
         /\ api.result \in {"emps.update", "lsps.update", "erc20s.update"} =>
              api.result = made[Len(made)] /\ api.lastBlockUpdate = api.before

\* C29 witness: lsps.update failed, erc20s.update was not called and
\* lastBlockUpdate is not the end block.
C29_Witness ==
  /\ api.startBlock < api.endBlock
  /\ api.result = "lsps.update"
  /\ Len(api.calls) = 2
  /\ api.lastBlockUpdate = api.before
  /\ api.lastBlockUpdate # api.endBlock

====
